---- MODULE Spec2Model ----
(***************************************************************************)
(* Ledger / chain state machine of the blockchain workshop crate:          *)
(*   src/src/types/blockchain.rs   Blockchain (append_block, validate)     *)
(*   src/src/types/transaction.rs  Transaction (execute, verify, hash)     *)
(*   src/src/types/block.rs        Block (new, set_nonce, add_transaction) *)
(*   src/src/types/account.rs      Account                                 *)
(*   src/src/utils.rs              get_bits_from_hash, test helpers        *)
(*                                                                         *)
(* Conventions.                                                            *)
(*  - Option<T> is a sequence of length 0 (None) or 1 (Some(x)).           *)
(*  - A u128 is written by its two's-complement reading, because the       *)
(*    checker's integers are 32 bits wide: n >= 0 stands for n and n < 0   *)
(*    stands for 2^128 + n, so U128_MAX is -1.  All values used stay       *)
(*    within a small distance of 0 or of 2^128.                            *)
(*  - Blake2s is collision free on the values of the model: a digest is    *)
(*    written as the tuple of the fields that were fed to the hasher.      *)
(*    hasher_input renders the bytes that were fed and HexDigits gives the *)
(*    64 hexadecimal characters of the digest, from the table Blake2s.     *)
(*  - An ed25519 signature is the pair (signing key, signed message); a    *)
(*    key pair is named by its public key.  PublicKeyBytes gives the bytes *)
(*    of each named key; WeakKey is the neutral point of the curve.        *)
(***************************************************************************)
EXTENDS Integers, Sequences, FiniteSets, TLC

VARIABLES blocks, accounts, result, last_op, overflow_checks, worker

vars == <<blocks, accounts, result, last_op, overflow_checks, worker>>

(***************************************************************************)
(* Option<T>                                                               *)
(***************************************************************************)
None == <<>>

Some(x) == <<x>>

is_some(o) == Len(o) = 1

is_none(o) == Len(o) = 0

unwrap(o) == o[1]

(***************************************************************************)
(* Balance = u128 (types/mod.rs:18)                                        *)
(***************************************************************************)
U128_MAX == -1

\* a < b on u128
u128_lt(a, b) == IF (a >= 0) = (b >= 0) THEN a < b ELSE a >= 0

\* a + b leaves the u128 range
u128_add_overflows(a, b) ==
    IF a >= 0 /\ b >= 0 THEN FALSE
    ELSE IF a < 0 /\ b < 0 THEN TRUE
    ELSE a + b >= 0

\* u128::checked_add : Option<u128>
checked_add(a, b) == IF u128_add_overflows(a, b) THEN None ELSE Some(a + b)

\* a + b modulo 2^128 (overflow checks off)
wrapping_add(a, b) == a + b

\* a - b for b <= a
u128_sub(a, b) == a - b

(***************************************************************************)
(* Account (types/account.rs)                                              *)
(***************************************************************************)
\* Account::new: balance 0
Account_new(account_type, public_key) ==
    [account_type |-> account_type, balance |-> 0, public_key |-> public_key]

\* HashMap<AccountId, Account>::get : Option<Account>
get_account_by_id(state, account_id) ==
    IF account_id \in DOMAIN state THEN Some(state[account_id]) ELSE None

\* HashMap entry insert / get_mut write
put_account(state, account_id, account) ==
    [id \in DOMAIN state \cup {account_id} |->
        IF id = account_id THEN account ELSE state[id]]

(***************************************************************************)
(* Results: Result<(), Error> with Error = String                          *)
(***************************************************************************)
Ok == "Ok"

ERR_ACCOUNT_EXISTS == "AccountId already exist: "

ERR_NOT_GENESIS_MINT == "Initial supply can be minted only in genesis block."

ERR_UNKNOWN_ACCOUNT == "Invalid account."

ERR_INVALID_SENDER_ID == "Invalid sender account id."

ERR_SELF_TRANSFER == "Transfer to yourself."

ERR_UNKNOWN_SENDER == "Invalid sender account."

ERR_UNKNOWN_RECEIVER == "Invalid receiver account."

ERR_INSUFFICIENT_FUNDS == "Sender doesn't have enough currency."

ERR_INVALID_SIGNATURE == "Signature invalid."

ERR_AMOUNT_OVERFLOW == "Transfer amount overflow."

ERR_INVALID_HASH == "Block has invalid hash"

ERR_EMPTY_BLOCK == "Block has 0 transactions."

ERR_TX_PREFIX == "Error during tx execution: "

\* the arithmetic overflow panic of a build with overflow checks; not a
\* Result: the call never returns
PANIC == "panic: attempt to add with overflow"

\* create_account as a plain HashMap::insert
create_account_insert(state, account_id, account_type, public_key) ==
    [res |-> Ok,
     accounts |-> put_account(state, account_id,
                              Account_new(account_type, public_key))]

\* WorldState::create_account for Blockchain
create_account(state, account_id, account_type, public_key) ==
    IF account_id \in DOMAIN state
    THEN [res |-> ERR_ACCOUNT_EXISTS \o account_id, accounts |-> state]
    ELSE [res |-> Ok,
          accounts |-> put_account(state, account_id,
                                   Account_new(account_type, public_key))]

(***************************************************************************)
(* Transaction (types/transaction.rs)                                      *)
(***************************************************************************)
CreateAccount(account_id, public_key) ==
    [kind |-> "CreateAccount", to |-> account_id, public_key |-> public_key,
     amount |-> 0]

MintInitialSupply(to, amount) ==
    [kind |-> "MintInitialSupply", to |-> to, public_key |-> "",
     amount |-> amount]

Transfer(to, amount) ==
    [kind |-> "Transfer", to |-> to, public_key |-> "", amount |-> amount]

\* Transaction::new
Transaction_new(data, from) ==
    [nonce |-> 0, timestamp |-> 0, from |-> from, data |-> data,
     signature |-> None]

\* impl Hashable for Transaction: digest of (nonce, timestamp, from, data);
\* the signature is not hashed
Transaction_hash(tx) == <<tx.nonce, tx.timestamp, tx.from, tx.data>>

\* Transaction::set_sign
set_sign(tx, signature) == [tx EXCEPT !.signature = Some(signature)]

\* Keypair::sign(message): the signature of message under the key pair
\* whose public key is key
sign(key, message) == [signer |-> key, msg |-> message]

\* the public key 01 00..00: the neutral point of the curve, which
\* PublicKey::from_bytes accepts.  No secret key is known for it.
WeakKey == "kweak"

\* the signature bytes 01 00..00 || 00..00 (R the neutral point, S = 0); a
\* signature value whose signer is WeakKey stands for signature bytes
\* (R, S) with R = [S]B, which anybody can write down
NeutralSignature == [signer |-> WeakKey, msg |-> <<>>]

\* PublicKey::from_bytes(bytes).is_ok(): the bytes decode to a curve point
PublicKey_from_bytes_ok(public_key) == public_key # "not-a-key"

\* PublicKey::verify(message, signature).is_ok() (ed25519-dalek `verify`,
\* not `verify_strict`): R = [S]B - [k]A with k the hash of (R, A, message).
\* Under the neutral point A the term [k]A vanishes, so the message is not
\* looked at; under any other key of the model only the signature made with
\* that key over that message passes.
PublicKey_verify(public_key, message, signature) ==
    /\ signature.signer = public_key
    /\ (public_key = WeakKey \/ signature.msg = message)

\* Transaction::verify
Transaction_verify(tx, sender) ==
    IF is_none(tx.signature) THEN FALSE
    ELSE IF PublicKey_from_bytes_ok(sender.public_key)
         THEN PublicKey_verify(sender.public_key, Transaction_hash(tx),
                               unwrap(tx.signature))
         ELSE FALSE

\* the MintInitialSupply arm without the is_genesis test
execute_mint_any_block(tx, state, is_genesis, checks) ==
    LET to == tx.data.to
        amount == tx.data.amount
    IN  IF is_none(get_account_by_id(state, to))
        THEN [res |-> ERR_UNKNOWN_ACCOUNT, accounts |-> state]
        ELSE LET account == unwrap(get_account_by_id(state, to))
             IN  IF checks /\ u128_add_overflows(account.balance, amount)
                 THEN [res |-> PANIC, accounts |-> state]
                 ELSE [res |-> Ok,
                       accounts |-> put_account(state, to,
                           [account EXCEPT !.balance =
                               wrapping_add(account.balance, amount)])]

\* MintInitialSupply arm: `account.balance += amount` is an unchecked add,
\* which panics when overflow checks are compiled in and wraps otherwise
execute_mint(tx, state, is_genesis, checks) ==
    LET to == tx.data.to
        amount == tx.data.amount
    IN  IF ~is_genesis
        THEN [res |-> ERR_NOT_GENESIS_MINT, accounts |-> state]
        ELSE IF is_none(get_account_by_id(state, to))
        THEN [res |-> ERR_UNKNOWN_ACCOUNT, accounts |-> state]
        ELSE LET account == unwrap(get_account_by_id(state, to))
             IN  IF checks /\ u128_add_overflows(account.balance, amount)
                 THEN [res |-> PANIC, accounts |-> state]
                 ELSE [res |-> Ok,
                       accounts |-> put_account(state, to,
                           [account EXCEPT !.balance =
                               wrapping_add(account.balance, amount)])]

\* the Transfer arm without the balance test
execute_transfer_no_balance_check(tx, state) ==
    LET to == tx.data.to
        amount == tx.data.amount
    IN  IF is_none(tx.from)
        THEN [res |-> ERR_INVALID_SENDER_ID, accounts |-> state]
        ELSE LET from == unwrap(tx.from) IN
        IF from = to
        THEN [res |-> ERR_SELF_TRANSFER, accounts |-> state]
        ELSE IF is_none(get_account_by_id(state, from))
        THEN [res |-> ERR_UNKNOWN_SENDER, accounts |-> state]
        ELSE IF is_none(get_account_by_id(state, to))
        THEN [res |-> ERR_UNKNOWN_RECEIVER, accounts |-> state]
        ELSE LET sender == unwrap(get_account_by_id(state, from))
                 receiver == unwrap(get_account_by_id(state, to))
             IN
        IF ~Transaction_verify(tx, sender)
        THEN [res |-> ERR_INVALID_SIGNATURE, accounts |-> state]
        ELSE IF is_none(checked_add(receiver.balance, amount))
        THEN [res |-> ERR_AMOUNT_OVERFLOW, accounts |-> state]
        ELSE LET balance == unwrap(checked_add(receiver.balance, amount))
                 debited == put_account(state, from,
                     [sender EXCEPT !.balance = u128_sub(sender.balance, amount)])
             IN  [res |-> Ok,
                  accounts |-> put_account(debited, to,
                      [debited[to] EXCEPT !.balance = balance])]

\* the Transfer arm with the signature verified before the balance is tested
execute_transfer_signature_first(tx, state) ==
    LET to == tx.data.to
        amount == tx.data.amount
    IN  IF is_none(tx.from)
        THEN [res |-> ERR_INVALID_SENDER_ID, accounts |-> state]
        ELSE LET from == unwrap(tx.from) IN
        IF from = to
        THEN [res |-> ERR_SELF_TRANSFER, accounts |-> state]
        ELSE IF is_none(get_account_by_id(state, from))
        THEN [res |-> ERR_UNKNOWN_SENDER, accounts |-> state]
        ELSE IF is_none(get_account_by_id(state, to))
        THEN [res |-> ERR_UNKNOWN_RECEIVER, accounts |-> state]
        ELSE LET sender == unwrap(get_account_by_id(state, from))
                 receiver == unwrap(get_account_by_id(state, to))
             IN
        IF ~Transaction_verify(tx, sender)
        THEN [res |-> ERR_INVALID_SIGNATURE, accounts |-> state]
        ELSE IF u128_lt(sender.balance, amount)
        THEN [res |-> ERR_INSUFFICIENT_FUNDS, accounts |-> state]
        ELSE IF is_none(checked_add(receiver.balance, amount))
        THEN [res |-> ERR_AMOUNT_OVERFLOW, accounts |-> state]
        ELSE LET balance == unwrap(checked_add(receiver.balance, amount))
                 debited == put_account(state, from,
                     [sender EXCEPT !.balance = u128_sub(sender.balance, amount)])
             IN  [res |-> Ok,
                  accounts |-> put_account(debited, to,
                      [debited[to] EXCEPT !.balance = balance])]

\* the Transfer arm that debits the sender before the receiver's sum is
\* checked for overflow
execute_transfer_debit_first(tx, state) ==
    LET to == tx.data.to
        amount == tx.data.amount
    IN  IF is_none(tx.from)
        THEN [res |-> ERR_INVALID_SENDER_ID, accounts |-> state]
        ELSE LET from == unwrap(tx.from) IN
        IF from = to
        THEN [res |-> ERR_SELF_TRANSFER, accounts |-> state]
        ELSE IF is_none(get_account_by_id(state, from))
        THEN [res |-> ERR_UNKNOWN_SENDER, accounts |-> state]
        ELSE IF is_none(get_account_by_id(state, to))
        THEN [res |-> ERR_UNKNOWN_RECEIVER, accounts |-> state]
        ELSE LET sender == unwrap(get_account_by_id(state, from))
                 receiver == unwrap(get_account_by_id(state, to))
                 debited == put_account(state, from,
                     [sender EXCEPT !.balance = u128_sub(sender.balance, amount)])
             IN
        IF u128_lt(sender.balance, amount)
        THEN [res |-> ERR_INSUFFICIENT_FUNDS, accounts |-> state]
        ELSE IF ~Transaction_verify(tx, sender)
        THEN [res |-> ERR_INVALID_SIGNATURE, accounts |-> state]
        ELSE IF is_none(checked_add(receiver.balance, amount))
        THEN [res |-> ERR_AMOUNT_OVERFLOW, accounts |-> debited]
        ELSE [res |-> Ok,
              accounts |-> put_account(debited, to,
                  [debited[to] EXCEPT !.balance =
                      unwrap(checked_add(receiver.balance, amount))])]

\* the Transfer arm that writes the amount, not the sum, to the receiver
execute_transfer_overwrite(tx, state) ==
    LET to == tx.data.to
        amount == tx.data.amount
    IN  IF is_none(tx.from)
        THEN [res |-> ERR_INVALID_SENDER_ID, accounts |-> state]
        ELSE LET from == unwrap(tx.from) IN
        IF from = to
        THEN [res |-> ERR_SELF_TRANSFER, accounts |-> state]
        ELSE IF is_none(get_account_by_id(state, from))
        THEN [res |-> ERR_UNKNOWN_SENDER, accounts |-> state]
        ELSE IF is_none(get_account_by_id(state, to))
        THEN [res |-> ERR_UNKNOWN_RECEIVER, accounts |-> state]
        ELSE LET sender == unwrap(get_account_by_id(state, from))
                 receiver == unwrap(get_account_by_id(state, to))
             IN
        IF u128_lt(sender.balance, amount)
        THEN [res |-> ERR_INSUFFICIENT_FUNDS, accounts |-> state]
        ELSE IF ~Transaction_verify(tx, sender)
        THEN [res |-> ERR_INVALID_SIGNATURE, accounts |-> state]
        ELSE IF is_none(checked_add(receiver.balance, amount))
        THEN [res |-> ERR_AMOUNT_OVERFLOW, accounts |-> state]
        ELSE LET debited == put_account(state, from,
                     [sender EXCEPT !.balance = u128_sub(sender.balance, amount)])
             IN  [res |-> Ok,
                  accounts |-> put_account(debited, to,
                      [debited[to] EXCEPT !.balance = amount])]

\* the Transfer arm that looks the two accounts up before comparing the ids
execute_transfer_lookup_first(tx, state) ==
    LET to == tx.data.to
        amount == tx.data.amount
    IN  IF is_none(tx.from)
        THEN [res |-> ERR_INVALID_SENDER_ID, accounts |-> state]
        ELSE LET from == unwrap(tx.from) IN
        IF is_none(get_account_by_id(state, from))
        THEN [res |-> ERR_UNKNOWN_SENDER, accounts |-> state]
        ELSE IF is_none(get_account_by_id(state, to))
        THEN [res |-> ERR_UNKNOWN_RECEIVER, accounts |-> state]
        ELSE IF from = to
        THEN [res |-> ERR_SELF_TRANSFER, accounts |-> state]
        ELSE LET sender == unwrap(get_account_by_id(state, from))
                 receiver == unwrap(get_account_by_id(state, to))
             IN
        IF u128_lt(sender.balance, amount)
        THEN [res |-> ERR_INSUFFICIENT_FUNDS, accounts |-> state]
        ELSE IF ~Transaction_verify(tx, sender)
        THEN [res |-> ERR_INVALID_SIGNATURE, accounts |-> state]
        ELSE IF is_none(checked_add(receiver.balance, amount))
        THEN [res |-> ERR_AMOUNT_OVERFLOW, accounts |-> state]
        ELSE LET balance == unwrap(checked_add(receiver.balance, amount))
                 debited == put_account(state, from,
                     [sender EXCEPT !.balance = u128_sub(sender.balance, amount)])
             IN  [res |-> Ok,
                  accounts |-> put_account(debited, to,
                      [debited[to] EXCEPT !.balance = balance])]

\* the Transfer arm crediting the receiver with a wrapping addition
execute_transfer_wrapping(tx, state) ==
    LET to == tx.data.to
        amount == tx.data.amount
    IN  IF is_none(tx.from)
        THEN [res |-> ERR_INVALID_SENDER_ID, accounts |-> state]
        ELSE LET from == unwrap(tx.from) IN
        IF from = to
        THEN [res |-> ERR_SELF_TRANSFER, accounts |-> state]
        ELSE IF is_none(get_account_by_id(state, from))
        THEN [res |-> ERR_UNKNOWN_SENDER, accounts |-> state]
        ELSE IF is_none(get_account_by_id(state, to))
        THEN [res |-> ERR_UNKNOWN_RECEIVER, accounts |-> state]
        ELSE LET sender == unwrap(get_account_by_id(state, from))
                 receiver == unwrap(get_account_by_id(state, to))
             IN
        IF u128_lt(sender.balance, amount)
        THEN [res |-> ERR_INSUFFICIENT_FUNDS, accounts |-> state]
        ELSE IF ~Transaction_verify(tx, sender)
        THEN [res |-> ERR_INVALID_SIGNATURE, accounts |-> state]
        ELSE LET balance == wrapping_add(receiver.balance, amount)
                 debited == put_account(state, from,
                     [sender EXCEPT !.balance = u128_sub(sender.balance, amount)])
             IN  [res |-> Ok,
                  accounts |-> put_account(debited, to,
                      [debited[to] EXCEPT !.balance = balance])]

\* the Transfer arm crediting the receiver without debiting the sender
execute_transfer_no_debit(tx, state) ==
    LET to == tx.data.to
        amount == tx.data.amount
    IN  IF is_none(tx.from)
        THEN [res |-> ERR_INVALID_SENDER_ID, accounts |-> state]
        ELSE LET from == unwrap(tx.from) IN
        IF from = to
        THEN [res |-> ERR_SELF_TRANSFER, accounts |-> state]
        ELSE IF is_none(get_account_by_id(state, from))
        THEN [res |-> ERR_UNKNOWN_SENDER, accounts |-> state]
        ELSE IF is_none(get_account_by_id(state, to))
        THEN [res |-> ERR_UNKNOWN_RECEIVER, accounts |-> state]
        ELSE LET sender == unwrap(get_account_by_id(state, from))
                 receiver == unwrap(get_account_by_id(state, to))
             IN
        IF u128_lt(sender.balance, amount)
        THEN [res |-> ERR_INSUFFICIENT_FUNDS, accounts |-> state]
        ELSE IF ~Transaction_verify(tx, sender)
        THEN [res |-> ERR_INVALID_SIGNATURE, accounts |-> state]
        ELSE IF is_none(checked_add(receiver.balance, amount))
        THEN [res |-> ERR_AMOUNT_OVERFLOW, accounts |-> state]
        ELSE LET balance == unwrap(checked_add(receiver.balance, amount))
                 debited == put_account(state, from,
                     sender)
             IN  [res |-> Ok,
                  accounts |-> put_account(debited, to,
                      [debited[to] EXCEPT !.balance = balance])]

\* Transfer arm
execute_transfer(tx, state) ==
    LET to == tx.data.to
        amount == tx.data.amount
    IN  IF is_none(tx.from)
        THEN [res |-> ERR_INVALID_SENDER_ID, accounts |-> state]
        ELSE LET from == unwrap(tx.from) IN
        IF from = to
        THEN [res |-> ERR_SELF_TRANSFER, accounts |-> state]
        ELSE IF is_none(get_account_by_id(state, from))
        THEN [res |-> ERR_UNKNOWN_SENDER, accounts |-> state]
        ELSE IF is_none(get_account_by_id(state, to))
        THEN [res |-> ERR_UNKNOWN_RECEIVER, accounts |-> state]
        ELSE LET sender == unwrap(get_account_by_id(state, from))
                 receiver == unwrap(get_account_by_id(state, to))
             IN
        IF u128_lt(sender.balance, amount)
        THEN [res |-> ERR_INSUFFICIENT_FUNDS, accounts |-> state]
        ELSE IF ~Transaction_verify(tx, sender)
        THEN [res |-> ERR_INVALID_SIGNATURE, accounts |-> state]
        ELSE IF is_none(checked_add(receiver.balance, amount))
        THEN [res |-> ERR_AMOUNT_OVERFLOW, accounts |-> state]
        ELSE LET balance == unwrap(checked_add(receiver.balance, amount))
                 debited == put_account(state, from,
                     [sender EXCEPT !.balance = u128_sub(sender.balance, amount)])
             IN  [res |-> Ok,
                  accounts |-> put_account(debited, to,
                      [debited[to] EXCEPT !.balance = balance])]

\* Transaction::execute: the result and the state it leaves
execute(tx, state, is_genesis, checks) ==
    CASE tx.data.kind = "CreateAccount" ->
            create_account(state, tx.data.to, "User", tx.data.public_key)
      [] tx.data.kind = "MintInitialSupply" ->
            execute_mint(tx, state, is_genesis, checks)
      [] tx.data.kind = "Transfer" ->
            execute_transfer(tx, state)

(***************************************************************************)
(* Digest / target codec (utils.rs, types/mod.rs)                          *)
(***************************************************************************)
MAX_TARGET == 520093695   \* 0x1effffff

\* length of a hex-encoded Blake2s digest
HASH_LEN == 64

\* the 32 bytes of each public key of the model.  A named key is the
\* ed25519 public key of the secret key whose bytes are the ASCII name
\* followed by zeros; WeakKey is the neutral point; "not-a-key" is 02 00..00,
\* which is the y coordinate of no point.
PublicKeyBytes(key) ==
    CASE key = "ka" ->
           <<249, 169, 172, 115, 251, 188, 118, 148, 228, 192, 238, 201, 55, 103, 149, 82>>
           \o <<243, 66, 7, 103, 36, 34, 204, 50, 7, 138, 37, 113, 194, 63, 77, 239>>
      [] key = "kb" ->
           <<117, 12, 88, 51, 108, 118, 252, 102, 185, 205, 229, 41, 218, 224, 53, 177>>
           \o <<105, 138, 120, 109, 6, 231, 235, 53, 15, 44, 76, 24, 117, 221, 217, 184>>
      [] key = "kc" ->
           <<179, 194, 161, 18, 93, 208, 5, 88, 225, 60, 63, 243, 52, 255, 62, 97>>
           \o <<30, 144, 44, 248, 166, 97, 97, 6, 195, 162, 159, 40, 67, 43, 60, 69>>
      [] key = "kx" ->
           <<147, 40, 207, 203, 42, 118, 175, 175, 63, 215, 244, 90, 131, 184, 14, 42>>
           \o <<251, 222, 126, 139, 135, 5, 218, 150, 208, 132, 121, 77, 238, 31, 204, 253>>
      [] key = "kz" ->
           <<224, 246, 79, 156, 223, 5, 222, 144, 165, 10, 12, 50, 191, 65, 181, 153>>
           \o <<82, 68, 89, 187, 176, 110, 200, 57, 33, 208, 173, 108, 207, 158, 106, 207>>
      [] key = "ksatoshi" ->
           <<197, 226, 49, 197, 65, 22, 211, 216, 130, 124, 165, 10, 42, 69, 194, 35>>
           \o <<194, 97, 200, 73, 161, 225, 50, 198, 53, 63, 187, 173, 126, 112, 52, 186>>
      [] key = "kalice" ->
           <<104, 28, 196, 100, 81, 71, 11, 173, 105, 61, 219, 242, 169, 79, 49, 29>>
           \o <<5, 93, 86, 207, 196, 93, 129, 118, 185, 101, 20, 168, 34, 100, 33, 227>>
      [] key = "kbob" ->
           <<204, 75, 198, 179, 133, 13, 14, 24, 0, 32, 55, 254, 76, 99, 0, 49>>
           \o <<230, 182, 111, 130, 51, 21, 158, 37, 26, 11, 220, 65, 207, 6, 130, 191>>
      [] key = "kweak" ->
           <<1, 0, 0, 0, 0, 0, 0, 0, 0, 0, 0, 0, 0, 0, 0, 0>>
           \o <<0, 0, 0, 0, 0, 0, 0, 0, 0, 0, 0, 0, 0, 0, 0, 0>>
      [] key = "not-a-key" ->
           <<2, 0, 0, 0, 0, 0, 0, 0, 0, 0, 0, 0, 0, 0, 0, 0>>
           \o <<0, 0, 0, 0, 0, 0, 0, 0, 0, 0, 0, 0, 0, 0, 0, 0>>

\* format!("{:?}", n) for a u128
Debug_u128(n) ==
    IF n >= 0 THEN ToString(n)
    ELSE << "340282366920938463463374607431768211455",
            "340282366920938463463374607431768211454",
            "340282366920938463463374607431768211453",
            "340282366920938463463374607431768211452" >>[-n]

\* format!("{:?}", s) for a String without characters to escape
Debug_str(s) == "\"" \o s \o "\""

\* format!("{:?}", o) for an Option<String>
Debug_option(o) ==
    IF is_none(o) THEN "None" ELSE "Some(" \o Debug_str(unwrap(o)) \o ")"

\* the elements of a byte array separated by ", "
RECURSIVE Debug_list(_)
Debug_list(bytes) ==
    IF Len(bytes) = 1 THEN ToString(bytes[1])
    ELSE ToString(bytes[1]) \o ", " \o Debug_list(Tail(bytes))

\* format!("{:?}", bytes) for a [u8; 32]
Debug_bytes(bytes) == "[" \o Debug_list(bytes) \o "]"

\* the public keys of the model
PublicKeys == {"ka", "kb", "kc", "kx", "kz", "ksatoshi", "kalice", "kbob",
               "kweak", "not-a-key"}

\* format!("{:?}", public_key) of every key of the model, computed once
DebugOfKey == [key \in PublicKeys |-> Debug_bytes(PublicKeyBytes(key))]

\* format!("{:?}", data) for a TransactionData (derive(Debug))
Debug_data(data) ==
    CASE data.kind = "CreateAccount" ->
            "CreateAccount(" \o Debug_str(data.to) \o ", "
                \o DebugOfKey[data.public_key] \o ")"
      [] data.kind = "MintInitialSupply" ->
            "MintInitialSupply { to: " \o Debug_str(data.to) \o ", amount: "
                \o Debug_u128(data.amount) \o " }"
      [] data.kind = "Transfer" ->
            "Transfer { to: " \o Debug_str(data.to) \o ", amount: "
                \o Debug_u128(data.amount) \o " }"

\* hex::encode of a digest given by its 64 hexadecimal digits
RECURSIVE hex_encode(_)
hex_encode(digits) ==
    IF Len(digits) = 0 THEN ""
    ELSE << "0", "1", "2", "3", "4", "5", "6", "7",
            "8", "9", "a", "b", "c", "d", "e", "f" >>[Head(digits) + 1]
         \o hex_encode(Tail(digits))

\* Blake2s on the byte strings the model hashes, as 64 hexadecimal digits
Blake2s ==
    ((((((((((("(0, 0, None, CreateAccount(\"a\", [249, 169, 172, 115, 251, 188, 118, 148, 228, 192, 238, 201, 55, 103, 149, 82, 243, 66, 7, 103, 36, 34, 204, 50, 7, 138, 37, 113, 194, 63, 77, 239]))"
        :> <<0, 10, 15, 7, 11, 10, 6, 6, 15, 9, 10, 2, 7, 14, 13, 0, 14, 2, 2, 9, 2, 2, 1, 10, 10, 13, 10, 0, 12, 12, 8, 8, 13, 5, 13, 6, 15, 13, 5, 8, 15, 4, 6, 15, 7, 2, 14, 11, 6, 2, 6, 11, 13, 3, 7, 11, 8, 14, 9, 4, 14, 15, 12, 8>>)
    @@
    (("(0, 0, None, CreateAccount(\"b\", [117, 12, 88, 51, 108, 118, 252, 102, 185, 205, 229, 41, 218, 224, 53, 177, 105, 138, 120, 109, 6, 231, 235, 53, 15, 44, 76, 24, 117, 221, 217, 184]))"
        :> <<7, 13, 3, 12, 9, 5, 15, 9, 8, 11, 13, 2, 11, 6, 6, 10, 15, 7, 12, 1, 13, 3, 10, 1, 6, 12, 10, 13, 1, 3, 14, 0, 1, 5, 6, 2, 5, 3, 9, 14, 0, 2, 10, 15, 12, 9, 6, 9, 5, 11, 8, 6, 10, 5, 4, 1, 6, 0, 9, 2, 6, 4, 5, 15>>)
    @@
    ("(0, 0, None, MintInitialSupply { to: \"a\", amount: 1 })"
        :> <<0, 15, 9, 5, 3, 13, 1, 2, 10, 9, 3, 9, 15, 14, 4, 14, 15, 3, 5, 4, 15, 15, 15, 7, 7, 5, 6, 4, 8, 4, 1, 6, 2, 7, 1, 3, 6, 10, 6, 11, 15, 3, 6, 6, 7, 11, 2, 5, 6, 12, 4, 10, 5, 12, 11, 6, 7, 6, 8, 7, 8, 8, 13, 10>>)))
    @@
    (("(0, 0, None, MintInitialSupply { to: \"a\", amount: 2 })"
        :> <<1, 4, 0, 15, 12, 1, 4, 8, 10, 3, 8, 0, 13, 6, 9, 11, 8, 7, 5, 3, 13, 2, 9, 6, 3, 5, 5, 13, 4, 5, 0, 10, 4, 12, 6, 0, 6, 13, 15, 10, 6, 5, 2, 4, 8, 2, 7, 4, 7, 10, 11, 6, 9, 4, 12, 13, 6, 10, 12, 2, 3, 9, 7, 2>>)
    @@
    (("(None, 0)"
        :> <<12, 0, 0, 0, 0, 6, 3, 9, 14, 9, 12, 13, 7, 5, 12, 2, 2, 8, 1, 9, 12, 6, 0, 10, 7, 2, 4, 3, 6, 12, 13, 4, 4, 11, 2, 2, 11, 4, 1, 14, 11, 4, 5, 14, 4, 6, 11, 8, 7, 1, 9, 9, 13, 7, 12, 11, 4, 12, 15, 3, 3, 6, 12, 14>>)
    @@
    ("(None, 0)0af7ba66f9a27ed0e229221aada0cc88d5d6fd58f46f72eb626bd37b8e94efc8"
        :> <<1, 13, 4, 13, 2, 10, 9, 1, 11, 5, 6, 2, 15, 2, 15, 15, 12, 10, 7, 6, 1, 4, 2, 0, 2, 2, 12, 11, 9, 2, 4, 10, 11, 7, 0, 10, 7, 6, 10, 5, 12, 5, 14, 6, 12, 11, 2, 14, 11, 9, 9, 14, 14, 10, 13, 14, 9, 3, 13, 6, 9, 1, 5, 3>>))))
    @@
    ((("(None, 0)0af7ba66f9a27ed0e229221aada0cc88d5d6fd58f46f72eb626bd37b8e94efc80af7ba66f9a27ed0e229221aada0cc88d5d6fd58f46f72eb626bd37b8e94efc8"
        :> <<2, 2, 8, 7, 4, 1, 8, 9, 8, 14, 0, 13, 11, 14, 7, 2, 9, 11, 12, 7, 1, 15, 1, 6, 7, 8, 0, 15, 12, 0, 0, 6, 14, 11, 9, 14, 11, 6, 15, 14, 10, 4, 4, 12, 10, 13, 15, 8, 11, 9, 5, 7, 7, 3, 1, 12, 12, 14, 8, 15, 2, 13, 0, 2>>)
    @@
    (("(None, 0)0af7ba66f9a27ed0e229221aada0cc88d5d6fd58f46f72eb626bd37b8e94efc80af7ba66f9a27ed0e229221aada0cc88d5d6fd58f46f72eb626bd37b8e94efc80af7ba66f9a27ed0e229221aada0cc88d5d6fd58f46f72eb626bd37b8e94efc8"
        :> <<2, 15, 0, 9, 1, 6, 1, 1, 2, 3, 5, 12, 1, 5, 5, 2, 2, 0, 1, 5, 1, 7, 1, 4, 7, 10, 9, 12, 0, 1, 8, 1, 12, 2, 2, 1, 13, 1, 12, 1, 15, 2, 9, 2, 8, 2, 5, 6, 3, 2, 11, 9, 13, 2, 1, 5, 3, 7, 5, 1, 7, 1, 11, 6>>)
    @@
    ("(None, 0)0af7ba66f9a27ed0e229221aada0cc88d5d6fd58f46f72eb626bd37b8e94efc80af7ba66f9a27ed0e229221aada0cc88d5d6fd58f46f72eb626bd37b8e94efc8140fc148a380d69b8753d296355d450a4c606dfa652482747ab694cd6ac23972"
        :> <<11, 7, 13, 15, 0, 8, 6, 2, 2, 2, 13, 0, 12, 2, 5, 13, 7, 2, 8, 5, 4, 6, 0, 14, 7, 8, 13, 3, 13, 13, 10, 1, 6, 12, 2, 14, 11, 5, 8, 15, 7, 15, 14, 5, 0, 3, 13, 10, 10, 8, 12, 12, 12, 8, 1, 15, 0, 5, 5, 8, 0, 6, 10, 0>>)))
    @@
    ((("(None, 0)0af7ba66f9a27ed0e229221aada0cc88d5d6fd58f46f72eb626bd37b8e94efc80f953d12a939fe4ef354fff77564841627136a6bf3667b256c4a5cb6768788da0af7ba66f9a27ed0e229221aada0cc88d5d6fd58f46f72eb626bd37b8e94efc8"
        :> <<5, 13, 3, 3, 9, 11, 13, 15, 1, 1, 8, 8, 0, 10, 4, 9, 1, 11, 8, 3, 4, 12, 2, 12, 2, 2, 1, 5, 3, 1, 13, 2, 5, 2, 5, 0, 12, 13, 15, 4, 12, 3, 8, 7, 2, 0, 15, 5, 5, 14, 2, 1, 5, 2, 9, 8, 14, 4, 3, 15, 5, 3, 5, 10>>)
    @@
    ("(None, 0)0af7ba66f9a27ed0e229221aada0cc88d5d6fd58f46f72eb626bd37b8e94efc80f953d12a939fe4ef354fff77564841627136a6bf3667b256c4a5cb6768788da140fc148a380d69b8753d296355d450a4c606dfa652482747ab694cd6ac23972"
        :> <<10, 3, 13, 8, 11, 2, 14, 1, 13, 8, 3, 9, 1, 8, 2, 6, 10, 3, 2, 0, 2, 10, 4, 5, 8, 0, 6, 11, 14, 1, 9, 7, 13, 8, 3, 1, 0, 0, 8, 3, 0, 0, 13, 6, 15, 6, 0, 1, 14, 3, 14, 6, 2, 2, 14, 13, 14, 4, 6, 9, 4, 1, 9, 15>>))
    @@
    (("(None, 0)0af7ba66f9a27ed0e229221aada0cc88d5d6fd58f46f72eb626bd37b8e94efc8140fc148a380d69b8753d296355d450a4c606dfa652482747ab694cd6ac23972"
        :> <<3, 0, 3, 0, 8, 15, 15, 3, 2, 6, 11, 13, 0, 11, 2, 11, 8, 15, 12, 8, 8, 13, 12, 2, 6, 13, 14, 11, 11, 11, 7, 1, 7, 12, 11, 2, 4, 15, 9, 5, 4, 14, 14, 7, 4, 5, 14, 2, 12, 2, 11, 4, 6, 8, 7, 11, 14, 11, 6, 11, 0, 0, 13, 8>>)
    @@
    ("(None, 0)0af7ba66f9a27ed0e229221aada0cc88d5d6fd58f46f72eb626bd37b8e94efc8140fc148a380d69b8753d296355d450a4c606dfa652482747ab694cd6ac239720af7ba66f9a27ed0e229221aada0cc88d5d6fd58f46f72eb626bd37b8e94efc8"
        :> <<15, 10, 13, 2, 0, 8, 1, 11, 15, 9, 8, 10, 9, 15, 1, 11, 8, 11, 2, 5, 2, 4, 0, 15, 0, 5, 3, 14, 9, 1, 0, 3, 0, 10, 12, 12, 12, 14, 9, 11, 2, 2, 3, 1, 7, 4, 1, 0, 5, 1, 10, 2, 3, 8, 6, 2, 5, 9, 7, 12, 10, 5, 12, 4>>)))))
    @@
    (((("(None, 0)0af7ba66f9a27ed0e229221aada0cc88d5d6fd58f46f72eb626bd37b8e94efc8140fc148a380d69b8753d296355d450a4c606dfa652482747ab694cd6ac23972140fc148a380d69b8753d296355d450a4c606dfa652482747ab694cd6ac23972"
        :> <<1, 13, 0, 14, 10, 11, 3, 1, 8, 6, 13, 7, 4, 12, 12, 8, 15, 12, 8, 7, 1, 0, 11, 0, 13, 2, 15, 2, 8, 11, 10, 8, 2, 3, 7, 1, 14, 4, 7, 4, 3, 8, 3, 3, 10, 4, 0, 10, 10, 10, 14, 13, 1, 15, 10, 3, 15, 8, 1, 1, 14, 4, 13, 8>>)
    @@
    (("(None, 0)0af7ba66f9a27ed0e229221aada0cc88d5d6fd58f46f72eb626bd37b8e94efc8140fc148a380d69b8753d296355d450a4c606dfa652482747ab694cd6ac239727d3c95f98bd2b66af7c1d3a16cad13e01562539e02afc9695b86a5416092645f"
        :> <<15, 10, 5, 8, 4, 10, 8, 14, 13, 13, 8, 4, 9, 14, 0, 12, 2, 9, 1, 2, 7, 10, 1, 5, 3, 8, 2, 12, 6, 14, 10, 4, 10, 7, 3, 15, 2, 4, 7, 5, 11, 12, 14, 10, 0, 0, 7, 7, 2, 6, 7, 2, 11, 2, 11, 1, 10, 2, 11, 13, 1, 14, 13, 12>>)
    @@
    ("(None, 0)0af7ba66f9a27ed0e229221aada0cc88d5d6fd58f46f72eb626bd37b8e94efc87d3c95f98bd2b66af7c1d3a16cad13e01562539e02afc9695b86a5416092645f"
        :> <<4, 9, 4, 11, 0, 11, 12, 4, 8, 2, 3, 12, 12, 14, 13, 5, 6, 8, 12, 2, 1, 2, 8, 2, 9, 13, 11, 1, 15, 15, 2, 10, 3, 4, 10, 0, 10, 2, 10, 1, 3, 3, 0, 9, 7, 7, 14, 8, 12, 9, 15, 3, 3, 13, 5, 8, 12, 2, 15, 13, 4, 8, 7, 4>>)))
    @@
    (("(None, 0)0af7ba66f9a27ed0e229221aada0cc88d5d6fd58f46f72eb626bd37b8e94efc87d3c95f98bd2b66af7c1d3a16cad13e01562539e02afc9695b86a5416092645f0af7ba66f9a27ed0e229221aada0cc88d5d6fd58f46f72eb626bd37b8e94efc8"
        :> <<13, 0, 12, 9, 12, 12, 11, 15, 7, 13, 11, 6, 4, 6, 2, 11, 1, 15, 11, 6, 3, 1, 5, 13, 15, 11, 1, 3, 2, 13, 14, 12, 0, 7, 12, 4, 5, 10, 9, 12, 6, 11, 13, 10, 14, 5, 1, 9, 3, 1, 12, 7, 4, 6, 0, 14, 14, 12, 10, 11, 9, 12, 3, 3>>)
    @@
    (("(None, 0)0af7ba66f9a27ed0e229221aada0cc88d5d6fd58f46f72eb626bd37b8e94efc87d3c95f98bd2b66af7c1d3a16cad13e01562539e02afc9695b86a5416092645f140fc148a380d69b8753d296355d450a4c606dfa652482747ab694cd6ac23972"
        :> <<15, 10, 2, 9, 14, 8, 7, 14, 8, 0, 13, 4, 8, 9, 1, 10, 15, 2, 7, 10, 13, 2, 0, 12, 8, 14, 7, 4, 1, 15, 5, 8, 15, 10, 14, 11, 1, 7, 11, 10, 2, 10, 0, 9, 10, 2, 10, 0, 2, 14, 10, 4, 13, 9, 6, 3, 1, 8, 13, 7, 12, 0, 1, 11>>)
    @@
    ("(None, 0)0f953d12a939fe4ef354fff77564841627136a6bf3667b256c4a5cb6768788da0af7ba66f9a27ed0e229221aada0cc88d5d6fd58f46f72eb626bd37b8e94efc8"
        :> <<1, 9, 11, 5, 2, 11, 3, 7, 8, 10, 5, 9, 13, 12, 11, 6, 2, 2, 2, 9, 4, 12, 14, 2, 0, 2, 2, 3, 15, 9, 11, 4, 9, 2, 1, 11, 14, 8, 14, 15, 15, 10, 13, 6, 8, 10, 8, 15, 11, 3, 12, 3, 15, 14, 10, 0, 8, 0, 4, 2, 9, 6, 1, 0>>))))
    @@
    ((("(None, 0)0f953d12a939fe4ef354fff77564841627136a6bf3667b256c4a5cb6768788da0af7ba66f9a27ed0e229221aada0cc88d5d6fd58f46f72eb626bd37b8e94efc80af7ba66f9a27ed0e229221aada0cc88d5d6fd58f46f72eb626bd37b8e94efc8"
        :> <<1, 0, 12, 9, 15, 8, 11, 0, 7, 3, 4, 2, 10, 14, 0, 4, 15, 14, 8, 5, 1, 2, 11, 10, 3, 5, 3, 15, 11, 10, 14, 13, 10, 9, 7, 13, 0, 10, 1, 7, 10, 15, 15, 9, 14, 5, 12, 4, 7, 4, 7, 9, 7, 4, 6, 9, 2, 8, 12, 8, 7, 11, 11, 6>>)
    @@
    (("(None, 0)0f953d12a939fe4ef354fff77564841627136a6bf3667b256c4a5cb6768788da0af7ba66f9a27ed0e229221aada0cc88d5d6fd58f46f72eb626bd37b8e94efc8140fc148a380d69b8753d296355d450a4c606dfa652482747ab694cd6ac23972"
        :> <<5, 7, 7, 2, 1, 11, 1, 13, 2, 3, 5, 4, 5, 4, 8, 0, 10, 10, 8, 10, 3, 6, 5, 13, 5, 11, 0, 3, 8, 9, 1, 3, 5, 8, 7, 3, 10, 13, 4, 7, 0, 5, 1, 0, 1, 13, 10, 0, 3, 12, 1, 1, 2, 11, 14, 8, 5, 0, 4, 8, 0, 5, 4, 0>>)
    @@
    ("(None, 0)0f953d12a939fe4ef354fff77564841627136a6bf3667b256c4a5cb6768788da0f953d12a939fe4ef354fff77564841627136a6bf3667b256c4a5cb6768788da0af7ba66f9a27ed0e229221aada0cc88d5d6fd58f46f72eb626bd37b8e94efc8"
        :> <<9, 11, 6, 12, 10, 12, 10, 0, 12, 7, 12, 2, 0, 7, 6, 4, 0, 13, 6, 9, 14, 13, 0, 5, 3, 13, 0, 14, 2, 2, 13, 13, 9, 0, 0, 0, 8, 7, 11, 10, 5, 10, 9, 14, 3, 0, 1, 14, 1, 10, 1, 15, 12, 6, 8, 14, 2, 0, 8, 3, 14, 15, 7, 15>>)))
    @@
    ((("(None, 0)0f953d12a939fe4ef354fff77564841627136a6bf3667b256c4a5cb6768788da0f953d12a939fe4ef354fff77564841627136a6bf3667b256c4a5cb6768788da140fc148a380d69b8753d296355d450a4c606dfa652482747ab694cd6ac23972"
        :> <<11, 11, 7, 1, 3, 12, 1, 7, 8, 3, 11, 0, 4, 1, 8, 1, 0, 8, 8, 0, 9, 5, 13, 15, 5, 10, 0, 8, 6, 0, 12, 14, 2, 14, 11, 5, 15, 8, 11, 3, 3, 5, 3, 11, 6, 14, 11, 13, 11, 0, 8, 7, 11, 13, 12, 6, 8, 6, 15, 7, 5, 15, 8, 13>>)
    @@
    ("(None, 0)0f953d12a939fe4ef354fff77564841627136a6bf3667b256c4a5cb6768788da140fc148a380d69b8753d296355d450a4c606dfa652482747ab694cd6ac23972"
        :> <<4, 6, 12, 5, 3, 0, 4, 10, 3, 11, 14, 3, 8, 14, 5, 4, 4, 9, 6, 2, 10, 8, 9, 3, 3, 5, 8, 3, 9, 14, 9, 4, 4, 1, 0, 6, 14, 0, 8, 10, 2, 14, 13, 10, 5, 12, 13, 4, 10, 10, 9, 9, 5, 14, 1, 6, 10, 12, 12, 2, 10, 0, 6, 8>>))
    @@
    (("(None, 0)0f953d12a939fe4ef354fff77564841627136a6bf3667b256c4a5cb6768788da140fc148a380d69b8753d296355d450a4c606dfa652482747ab694cd6ac239720af7ba66f9a27ed0e229221aada0cc88d5d6fd58f46f72eb626bd37b8e94efc8"
        :> <<12, 3, 1, 11, 3, 1, 5, 12, 4, 9, 1, 10, 2, 12, 14, 7, 4, 7, 13, 13, 14, 7, 7, 2, 4, 8, 8, 2, 4, 11, 4, 7, 8, 1, 7, 11, 10, 11, 8, 5, 15, 7, 1, 12, 14, 5, 15, 6, 2, 9, 7, 9, 1, 2, 0, 10, 7, 9, 3, 8, 10, 10, 13, 3>>)
    @@
    ("(None, 0)0f953d12a939fe4ef354fff77564841627136a6bf3667b256c4a5cb6768788da140fc148a380d69b8753d296355d450a4c606dfa652482747ab694cd6ac23972140fc148a380d69b8753d296355d450a4c606dfa652482747ab694cd6ac23972"
        :> <<7, 12, 15, 2, 5, 11, 6, 4, 11, 7, 14, 0, 3, 4, 6, 1, 7, 3, 9, 0, 9, 2, 13, 9, 8, 4, 9, 12, 3, 13, 15, 8, 2, 4, 7, 8, 11, 13, 10, 2, 15, 7, 14, 7, 0, 6, 11, 0, 2, 9, 5, 15, 7, 4, 3, 14, 1, 1, 13, 14, 9, 10, 10, 13>>))))))
    @@
    ((((("(None, 0)0f953d12a939fe4ef354fff77564841627136a6bf3667b256c4a5cb6768788da7d3c95f98bd2b66af7c1d3a16cad13e01562539e02afc9695b86a5416092645f0af7ba66f9a27ed0e229221aada0cc88d5d6fd58f46f72eb626bd37b8e94efc8"
        :> <<11, 10, 12, 5, 12, 1, 10, 5, 5, 10, 15, 1, 13, 11, 12, 8, 3, 4, 12, 12, 5, 5, 6, 6, 3, 13, 0, 1, 0, 9, 13, 12, 0, 2, 3, 7, 5, 10, 4, 4, 10, 2, 5, 4, 9, 15, 1, 15, 7, 3, 2, 1, 9, 5, 11, 13, 3, 2, 3, 7, 13, 1, 8, 10>>)
    @@
    (("(None, 0)0f953d12a939fe4ef354fff77564841627136a6bf3667b256c4a5cb6768788da7d3c95f98bd2b66af7c1d3a16cad13e01562539e02afc9695b86a5416092645f140fc148a380d69b8753d296355d450a4c606dfa652482747ab694cd6ac23972"
        :> <<6, 4, 2, 1, 11, 4, 10, 0, 8, 12, 13, 3, 6, 15, 12, 9, 7, 1, 0, 6, 4, 3, 13, 5, 15, 8, 5, 1, 11, 11, 1, 8, 12, 10, 10, 2, 10, 3, 0, 7, 6, 1, 4, 3, 12, 12, 0, 2, 7, 13, 8, 0, 2, 6, 4, 11, 7, 2, 12, 8, 8, 13, 8, 0>>)
    @@
    ("(None, 0)140fc148a380d69b8753d296355d450a4c606dfa652482747ab694cd6ac23972"
        :> <<0, 9, 4, 8, 3, 4, 9, 4, 7, 6, 2, 14, 14, 0, 9, 6, 0, 7, 4, 3, 10, 5, 15, 8, 1, 12, 8, 3, 1, 11, 4, 7, 12, 4, 14, 13, 7, 6, 4, 6, 13, 1, 4, 13, 4, 14, 12, 7, 2, 8, 12, 4, 0, 4, 2, 15, 9, 0, 6, 2, 8, 9, 6, 6>>)))
    @@
    (("(None, 0)140fc148a380d69b8753d296355d450a4c606dfa652482747ab694cd6ac239720af7ba66f9a27ed0e229221aada0cc88d5d6fd58f46f72eb626bd37b8e94efc8"
        :> <<2, 0, 6, 1, 0, 4, 8, 10, 5, 3, 1, 9, 13, 13, 14, 12, 11, 0, 12, 12, 10, 4, 10, 6, 8, 3, 5, 13, 8, 3, 15, 15, 13, 6, 0, 11, 12, 2, 1, 11, 1, 14, 6, 11, 3, 2, 1, 12, 1, 6, 12, 4, 5, 7, 15, 11, 1, 1, 6, 0, 11, 14, 1, 10>>)
    @@
    (("(None, 0)140fc148a380d69b8753d296355d450a4c606dfa652482747ab694cd6ac239720af7ba66f9a27ed0e229221aada0cc88d5d6fd58f46f72eb626bd37b8e94efc80af7ba66f9a27ed0e229221aada0cc88d5d6fd58f46f72eb626bd37b8e94efc8"
        :> <<4, 10, 10, 2, 1, 13, 11, 7, 14, 0, 10, 15, 15, 1, 14, 6, 14, 0, 12, 7, 15, 9, 5, 7, 1, 7, 7, 11, 11, 5, 11, 0, 6, 15, 12, 11, 3, 0, 7, 3, 0, 8, 4, 1, 12, 10, 12, 12, 2, 15, 2, 6, 0, 8, 2, 9, 7, 5, 4, 15, 6, 13, 2, 15>>)
    @@
    ("(None, 0)140fc148a380d69b8753d296355d450a4c606dfa652482747ab694cd6ac239720af7ba66f9a27ed0e229221aada0cc88d5d6fd58f46f72eb626bd37b8e94efc8140fc148a380d69b8753d296355d450a4c606dfa652482747ab694cd6ac23972"
        :> <<0, 0, 2, 9, 6, 5, 11, 11, 9, 12, 13, 14, 0, 7, 7, 15, 14, 15, 10, 3, 12, 12, 10, 7, 4, 8, 12, 13, 6, 6, 2, 3, 0, 5, 12, 10, 2, 8, 12, 15, 14, 2, 10, 14, 7, 7, 10, 11, 9, 2, 14, 8, 15, 11, 15, 3, 8, 4, 1, 9, 1, 8, 9, 3>>))))
    @@
    ((("(None, 0)140fc148a380d69b8753d296355d450a4c606dfa652482747ab694cd6ac239720f953d12a939fe4ef354fff77564841627136a6bf3667b256c4a5cb6768788da0af7ba66f9a27ed0e229221aada0cc88d5d6fd58f46f72eb626bd37b8e94efc8"
        :> <<1, 12, 8, 15, 15, 5, 10, 9, 3, 4, 10, 1, 8, 2, 1, 4, 9, 12, 6, 8, 15, 8, 13, 5, 13, 4, 14, 2, 14, 12, 9, 1, 13, 13, 0, 11, 6, 1, 1, 11, 15, 15, 10, 8, 11, 10, 6, 12, 1, 5, 5, 13, 8, 6, 14, 9, 1, 10, 7, 14, 3, 2, 10, 14>>)
    @@
    (("(None, 0)140fc148a380d69b8753d296355d450a4c606dfa652482747ab694cd6ac239720f953d12a939fe4ef354fff77564841627136a6bf3667b256c4a5cb6768788da140fc148a380d69b8753d296355d450a4c606dfa652482747ab694cd6ac23972"
        :> <<14, 12, 1, 13, 2, 14, 15, 0, 14, 14, 1, 8, 3, 14, 13, 11, 11, 14, 9, 12, 0, 2, 14, 4, 3, 12, 14, 8, 3, 15, 11, 8, 1, 15, 12, 14, 7, 6, 6, 2, 7, 0, 1, 1, 12, 8, 3, 7, 11, 12, 2, 9, 8, 8, 8, 13, 15, 2, 15, 14, 15, 15, 8, 15>>)
    @@
    ("(None, 0)140fc148a380d69b8753d296355d450a4c606dfa652482747ab694cd6ac23972140fc148a380d69b8753d296355d450a4c606dfa652482747ab694cd6ac23972"
        :> <<7, 12, 5, 0, 1, 15, 4, 5, 14, 1, 0, 14, 1, 6, 11, 5, 4, 2, 11, 0, 11, 12, 7, 7, 5, 0, 3, 8, 1, 8, 5, 13, 3, 4, 10, 3, 3, 10, 12, 7, 10, 9, 2, 10, 1, 10, 2, 6, 7, 8, 2, 5, 13, 7, 4, 4, 15, 6, 4, 10, 2, 5, 2, 9>>)))
    @@
    ((("(None, 0)140fc148a380d69b8753d296355d450a4c606dfa652482747ab694cd6ac23972140fc148a380d69b8753d296355d450a4c606dfa652482747ab694cd6ac239720af7ba66f9a27ed0e229221aada0cc88d5d6fd58f46f72eb626bd37b8e94efc8"
        :> <<15, 11, 14, 8, 0, 7, 1, 10, 1, 6, 12, 1, 6, 8, 13, 6, 10, 9, 1, 13, 15, 3, 12, 7, 3, 0, 14, 8, 3, 0, 11, 12, 15, 2, 6, 14, 4, 3, 0, 15, 11, 4, 1, 2, 10, 5, 7, 10, 3, 10, 9, 3, 3, 13, 4, 9, 14, 4, 1, 9, 14, 4, 2, 0>>)
    @@
    ("(None, 0)140fc148a380d69b8753d296355d450a4c606dfa652482747ab694cd6ac23972140fc148a380d69b8753d296355d450a4c606dfa652482747ab694cd6ac23972140fc148a380d69b8753d296355d450a4c606dfa652482747ab694cd6ac23972"
        :> <<10, 1, 2, 0, 11, 1, 3, 14, 1, 1, 13, 10, 14, 12, 6, 6, 12, 10, 8, 9, 5, 12, 13, 8, 1, 15, 0, 11, 3, 14, 12, 13, 2, 12, 2, 13, 10, 11, 14, 12, 14, 8, 4, 15, 5, 8, 15, 3, 11, 10, 13, 10, 7, 6, 2, 10, 3, 14, 14, 0, 8, 1, 5, 4>>))
    @@
    (("(None, 0)140fc148a380d69b8753d296355d450a4c606dfa652482747ab694cd6ac239727d3c95f98bd2b66af7c1d3a16cad13e01562539e02afc9695b86a5416092645f0af7ba66f9a27ed0e229221aada0cc88d5d6fd58f46f72eb626bd37b8e94efc8"
        :> <<2, 2, 14, 2, 15, 12, 8, 5, 3, 5, 15, 3, 14, 4, 6, 15, 14, 7, 8, 14, 9, 8, 11, 4, 5, 12, 10, 13, 5, 6, 4, 1, 14, 5, 15, 9, 0, 5, 3, 12, 6, 14, 5, 3, 5, 1, 0, 11, 2, 2, 5, 4, 2, 9, 13, 6, 10, 11, 12, 14, 2, 0, 10, 7>>)
    @@
    ("(None, 0)140fc148a380d69b8753d296355d450a4c606dfa652482747ab694cd6ac239727d3c95f98bd2b66af7c1d3a16cad13e01562539e02afc9695b86a5416092645f140fc148a380d69b8753d296355d450a4c606dfa652482747ab694cd6ac23972"
        :> <<0, 5, 3, 1, 11, 12, 0, 8, 9, 9, 9, 4, 3, 13, 7, 1, 2, 0, 1, 0, 12, 15, 4, 10, 4, 5, 11, 14, 5, 8, 1, 2, 2, 0, 5, 0, 3, 8, 8, 10, 12, 5, 14, 8, 2, 9, 7, 4, 15, 8, 5, 11, 2, 14, 4, 3, 7, 4, 9, 4, 6, 9, 10, 6>>)))))
    @@
    (((("(None, 0)7d3c95f98bd2b66af7c1d3a16cad13e01562539e02afc9695b86a5416092645f"
        :> <<4, 6, 4, 13, 14, 12, 2, 4, 0, 10, 10, 3, 5, 10, 4, 3, 1, 5, 3, 7, 1, 10, 6, 6, 11, 3, 14, 9, 0, 0, 15, 13, 7, 11, 8, 9, 2, 3, 8, 8, 0, 0, 13, 8, 15, 6, 9, 0, 5, 3, 7, 3, 1, 10, 14, 13, 12, 4, 5, 14, 0, 0, 10, 1>>)
    @@
    (("(None, 0)7d3c95f98bd2b66af7c1d3a16cad13e01562539e02afc9695b86a5416092645f0af7ba66f9a27ed0e229221aada0cc88d5d6fd58f46f72eb626bd37b8e94efc8"
        :> <<14, 8, 10, 1, 10, 14, 8, 6, 14, 6, 15, 3, 12, 8, 13, 0, 13, 5, 8, 10, 2, 12, 2, 3, 6, 4, 0, 13, 4, 7, 9, 8, 11, 0, 14, 6, 15, 8, 11, 2, 4, 13, 9, 7, 6, 12, 14, 6, 7, 6, 8, 5, 14, 4, 2, 12, 10, 3, 2, 10, 6, 3, 14, 0>>)
    @@
    ("(None, 0)7d3c95f98bd2b66af7c1d3a16cad13e01562539e02afc9695b86a5416092645f0af7ba66f9a27ed0e229221aada0cc88d5d6fd58f46f72eb626bd37b8e94efc80af7ba66f9a27ed0e229221aada0cc88d5d6fd58f46f72eb626bd37b8e94efc8"
        :> <<7, 6, 2, 9, 0, 15, 11, 0, 4, 11, 3, 15, 11, 0, 2, 6, 8, 4, 13, 11, 8, 5, 12, 14, 6, 12, 15, 1, 0, 0, 13, 1, 1, 0, 9, 3, 13, 6, 10, 6, 13, 14, 5, 14, 0, 3, 15, 7, 4, 5, 14, 11, 14, 11, 2, 1, 3, 8, 0, 0, 10, 11, 10, 5>>)))
    @@
    (("(None, 0)7d3c95f98bd2b66af7c1d3a16cad13e01562539e02afc9695b86a5416092645f0af7ba66f9a27ed0e229221aada0cc88d5d6fd58f46f72eb626bd37b8e94efc8140fc148a380d69b8753d296355d450a4c606dfa652482747ab694cd6ac23972"
        :> <<4, 6, 9, 8, 5, 11, 8, 10, 6, 10, 9, 15, 3, 1, 2, 9, 15, 10, 9, 1, 0, 9, 5, 5, 2, 8, 9, 2, 4, 7, 7, 15, 12, 1, 6, 4, 0, 0, 8, 8, 15, 13, 5, 2, 1, 1, 1, 4, 9, 14, 11, 6, 1, 7, 12, 12, 12, 10, 14, 12, 6, 1, 8, 7>>)
    @@
    (("(None, 0)7d3c95f98bd2b66af7c1d3a16cad13e01562539e02afc9695b86a5416092645f0f953d12a939fe4ef354fff77564841627136a6bf3667b256c4a5cb6768788da0af7ba66f9a27ed0e229221aada0cc88d5d6fd58f46f72eb626bd37b8e94efc8"
        :> <<8, 3, 11, 9, 13, 13, 1, 1, 5, 8, 14, 8, 12, 5, 9, 14, 4, 2, 11, 5, 5, 4, 1, 11, 3, 13, 3, 12, 9, 12, 12, 2, 14, 12, 4, 3, 0, 6, 4, 8, 4, 13, 10, 9, 5, 8, 6, 6, 6, 9, 11, 2, 5, 8, 7, 13, 12, 11, 0, 7, 10, 10, 5, 14>>)
    @@
    ("(None, 0)7d3c95f98bd2b66af7c1d3a16cad13e01562539e02afc9695b86a5416092645f0f953d12a939fe4ef354fff77564841627136a6bf3667b256c4a5cb6768788da140fc148a380d69b8753d296355d450a4c606dfa652482747ab694cd6ac23972"
        :> <<1, 13, 13, 12, 2, 10, 6, 6, 7, 2, 11, 0, 7, 2, 3, 15, 4, 4, 4, 5, 6, 14, 15, 5, 15, 12, 3, 5, 1, 7, 4, 12, 12, 6, 0, 3, 12, 0, 11, 12, 5, 0, 13, 12, 3, 9, 13, 5, 2, 3, 10, 14, 1, 12, 13, 12, 14, 13, 14, 10, 11, 8, 1, 10>>))))
    @@
    ((("(None, 0)7d3c95f98bd2b66af7c1d3a16cad13e01562539e02afc9695b86a5416092645f140fc148a380d69b8753d296355d450a4c606dfa652482747ab694cd6ac23972"
        :> <<7, 8, 1, 0, 10, 11, 1, 10, 7, 13, 15, 11, 6, 9, 2, 14, 8, 14, 4, 9, 2, 7, 3, 10, 0, 12, 15, 12, 11, 3, 11, 6, 9, 13, 4, 12, 14, 1, 14, 2, 10, 7, 13, 11, 3, 7, 8, 15, 15, 12, 1, 12, 14, 12, 7, 15, 9, 0, 6, 14, 13, 11, 2, 0>>)
    @@
    (("(None, 0)7d3c95f98bd2b66af7c1d3a16cad13e01562539e02afc9695b86a5416092645f140fc148a380d69b8753d296355d450a4c606dfa652482747ab694cd6ac239720af7ba66f9a27ed0e229221aada0cc88d5d6fd58f46f72eb626bd37b8e94efc8"
        :> <<13, 7, 1, 13, 3, 14, 12, 12, 9, 8, 12, 14, 1, 12, 2, 2, 10, 15, 5, 2, 2, 2, 10, 1, 15, 15, 13, 10, 9, 13, 8, 4, 11, 1, 9, 1, 10, 4, 0, 2, 8, 8, 8, 7, 5, 1, 8, 7, 10, 13, 9, 5, 13, 0, 6, 6, 8, 11, 11, 5, 8, 8, 9, 6>>)
    @@
    ("(None, 0)7d3c95f98bd2b66af7c1d3a16cad13e01562539e02afc9695b86a5416092645f140fc148a380d69b8753d296355d450a4c606dfa652482747ab694cd6ac23972140fc148a380d69b8753d296355d450a4c606dfa652482747ab694cd6ac23972"
        :> <<10, 11, 12, 10, 0, 13, 6, 1, 14, 7, 0, 7, 7, 2, 11, 6, 1, 1, 2, 8, 0, 13, 0, 10, 15, 15, 3, 7, 0, 5, 6, 12, 2, 2, 9, 10, 10, 13, 12, 3, 15, 6, 12, 5, 0, 4, 7, 1, 7, 8, 1, 14, 6, 12, 1, 5, 2, 6, 9, 15, 2, 11, 9, 0>>)))
    @@
    ((("(None, 0)7d3c95f98bd2b66af7c1d3a16cad13e01562539e02afc9695b86a5416092645f7d3c95f98bd2b66af7c1d3a16cad13e01562539e02afc9695b86a5416092645f0af7ba66f9a27ed0e229221aada0cc88d5d6fd58f46f72eb626bd37b8e94efc8"
        :> <<5, 11, 13, 2, 6, 15, 0, 14, 5, 5, 11, 13, 8, 9, 12, 6, 8, 8, 14, 11, 13, 15, 2, 4, 12, 8, 4, 12, 6, 7, 12, 5, 6, 12, 6, 4, 4, 9, 0, 4, 12, 13, 3, 5, 10, 9, 1, 11, 9, 7, 15, 15, 3, 6, 3, 5, 15, 7, 15, 12, 6, 10, 1, 10>>)
    @@
    ("(None, 0)7d3c95f98bd2b66af7c1d3a16cad13e01562539e02afc9695b86a5416092645f7d3c95f98bd2b66af7c1d3a16cad13e01562539e02afc9695b86a5416092645f140fc148a380d69b8753d296355d450a4c606dfa652482747ab694cd6ac23972"
        :> <<3, 6, 13, 2, 4, 15, 9, 5, 8, 8, 1, 2, 9, 5, 9, 1, 0, 5, 5, 10, 15, 11, 8, 1, 15, 10, 4, 12, 12, 1, 8, 9, 15, 13, 5, 2, 13, 12, 11, 6, 4, 4, 11, 3, 9, 7, 11, 1, 6, 8, 4, 1, 13, 1, 4, 9, 13, 2, 4, 5, 11, 13, 10, 11>>))
    @@
    (("(None, 1)"
        :> <<4, 9, 8, 14, 1, 3, 6, 13, 12, 5, 9, 10, 8, 5, 4, 11, 8, 9, 9, 12, 3, 3, 0, 8, 3, 9, 12, 10, 4, 3, 1, 13, 13, 7, 3, 7, 0, 1, 6, 5, 3, 0, 9, 5, 7, 3, 4, 1, 9, 6, 6, 14, 0, 4, 3, 1, 6, 2, 11, 12, 8, 10, 15, 7>>)
    @@
    ("(None, 1)0af7ba66f9a27ed0e229221aada0cc88d5d6fd58f46f72eb626bd37b8e94efc8"
        :> <<5, 13, 5, 3, 11, 8, 15, 9, 8, 3, 2, 8, 14, 10, 14, 14, 4, 14, 2, 9, 9, 2, 10, 1, 6, 5, 1, 6, 15, 12, 12, 7, 11, 3, 13, 4, 5, 4, 5, 8, 12, 10, 6, 6, 1, 7, 7, 2, 5, 14, 6, 15, 4, 7, 7, 3, 2, 6, 10, 5, 3, 9, 1, 9>>)))))))
    @@
    (((((("(None, 1)0af7ba66f9a27ed0e229221aada0cc88d5d6fd58f46f72eb626bd37b8e94efc80af7ba66f9a27ed0e229221aada0cc88d5d6fd58f46f72eb626bd37b8e94efc8"
        :> <<10, 2, 8, 14, 15, 15, 4, 7, 7, 8, 7, 11, 0, 15, 4, 5, 9, 5, 15, 8, 11, 5, 10, 1, 9, 14, 3, 0, 13, 2, 9, 2, 3, 8, 12, 8, 1, 7, 2, 1, 10, 0, 15, 4, 7, 1, 9, 8, 6, 11, 0, 14, 5, 13, 2, 10, 3, 7, 11, 0, 10, 3, 4, 9>>)
    @@
    (("(None, 1)0af7ba66f9a27ed0e229221aada0cc88d5d6fd58f46f72eb626bd37b8e94efc80af7ba66f9a27ed0e229221aada0cc88d5d6fd58f46f72eb626bd37b8e94efc80af7ba66f9a27ed0e229221aada0cc88d5d6fd58f46f72eb626bd37b8e94efc8"
        :> <<12, 0, 8, 10, 2, 1, 14, 2, 7, 8, 1, 4, 12, 7, 10, 7, 10, 0, 7, 6, 10, 6, 5, 12, 11, 9, 13, 7, 5, 1, 6, 15, 2, 1, 9, 13, 12, 10, 3, 12, 4, 15, 9, 12, 11, 13, 6, 8, 9, 6, 11, 8, 12, 5, 1, 6, 2, 8, 7, 2, 13, 8, 8, 11>>)
    @@
    ("(None, 1)0af7ba66f9a27ed0e229221aada0cc88d5d6fd58f46f72eb626bd37b8e94efc80af7ba66f9a27ed0e229221aada0cc88d5d6fd58f46f72eb626bd37b8e94efc80f953d12a939fe4ef354fff77564841627136a6bf3667b256c4a5cb6768788da"
        :> <<13, 12, 12, 13, 1, 0, 13, 6, 7, 7, 15, 8, 13, 4, 15, 1, 2, 5, 14, 9, 7, 15, 3, 8, 2, 0, 0, 7, 6, 2, 6, 8, 6, 6, 12, 6, 15, 10, 5, 6, 2, 14, 6, 1, 6, 13, 11, 5, 13, 14, 6, 11, 4, 15, 10, 8, 4, 15, 13, 3, 13, 1, 8, 9>>)))
    @@
    (("(None, 1)0af7ba66f9a27ed0e229221aada0cc88d5d6fd58f46f72eb626bd37b8e94efc80af7ba66f9a27ed0e229221aada0cc88d5d6fd58f46f72eb626bd37b8e94efc8140fc148a380d69b8753d296355d450a4c606dfa652482747ab694cd6ac23972"
        :> <<11, 0, 4, 12, 9, 7, 15, 14, 8, 9, 10, 3, 12, 13, 15, 9, 11, 7, 7, 0, 4, 12, 13, 15, 0, 7, 0, 4, 14, 3, 14, 14, 0, 1, 13, 6, 15, 13, 10, 10, 4, 9, 15, 10, 10, 14, 14, 2, 6, 6, 2, 0, 10, 3, 3, 13, 3, 5, 6, 9, 2, 2, 5, 14>>)
    @@
    (("(None, 1)0af7ba66f9a27ed0e229221aada0cc88d5d6fd58f46f72eb626bd37b8e94efc80af7ba66f9a27ed0e229221aada0cc88d5d6fd58f46f72eb626bd37b8e94efc87d3c95f98bd2b66af7c1d3a16cad13e01562539e02afc9695b86a5416092645f"
        :> <<15, 12, 7, 12, 11, 1, 3, 12, 8, 12, 14, 0, 14, 5, 14, 1, 1, 7, 5, 13, 4, 10, 10, 13, 2, 3, 4, 2, 8, 5, 2, 8, 12, 1, 11, 1, 7, 14, 5, 1, 13, 15, 10, 3, 6, 5, 14, 3, 1, 13, 3, 15, 6, 8, 10, 6, 9, 8, 10, 14, 11, 1, 7, 9>>)
    @@
    ("(None, 1)0af7ba66f9a27ed0e229221aada0cc88d5d6fd58f46f72eb626bd37b8e94efc80f953d12a939fe4ef354fff77564841627136a6bf3667b256c4a5cb6768788da"
        :> <<2, 9, 1, 5, 4, 8, 12, 15, 15, 9, 11, 9, 15, 5, 4, 8, 8, 1, 0, 9, 14, 13, 5, 14, 7, 1, 5, 2, 12, 6, 0, 11, 8, 7, 9, 12, 13, 11, 14, 8, 0, 4, 13, 11, 8, 11, 10, 4, 14, 8, 15, 12, 8, 13, 8, 11, 2, 12, 8, 14, 4, 0, 15, 3>>))))
    @@
    ((("(None, 1)0af7ba66f9a27ed0e229221aada0cc88d5d6fd58f46f72eb626bd37b8e94efc80f953d12a939fe4ef354fff77564841627136a6bf3667b256c4a5cb6768788da0af7ba66f9a27ed0e229221aada0cc88d5d6fd58f46f72eb626bd37b8e94efc8"
        :> <<10, 7, 3, 0, 1, 5, 1, 6, 4, 1, 8, 13, 10, 13, 0, 11, 7, 9, 13, 11, 11, 8, 11, 15, 4, 12, 2, 7, 8, 9, 8, 1, 13, 3, 3, 6, 1, 12, 0, 2, 4, 10, 5, 15, 5, 9, 2, 3, 8, 15, 12, 15, 10, 9, 8, 7, 7, 0, 10, 4, 0, 3, 1, 15>>)
    @@
    (("(None, 1)0af7ba66f9a27ed0e229221aada0cc88d5d6fd58f46f72eb626bd37b8e94efc80f953d12a939fe4ef354fff77564841627136a6bf3667b256c4a5cb6768788da0f953d12a939fe4ef354fff77564841627136a6bf3667b256c4a5cb6768788da"
        :> <<12, 7, 9, 12, 15, 8, 6, 15, 9, 0, 4, 10, 12, 0, 13, 1, 11, 8, 15, 5, 14, 4, 1, 5, 1, 9, 9, 15, 0, 8, 0, 4, 11, 4, 4, 9, 15, 4, 2, 10, 13, 2, 9, 12, 5, 10, 10, 0, 14, 7, 5, 5, 10, 0, 15, 0, 15, 3, 11, 10, 0, 9, 6, 4>>)
    @@
    ("(None, 1)0af7ba66f9a27ed0e229221aada0cc88d5d6fd58f46f72eb626bd37b8e94efc80f953d12a939fe4ef354fff77564841627136a6bf3667b256c4a5cb6768788da140fc148a380d69b8753d296355d450a4c606dfa652482747ab694cd6ac23972"
        :> <<5, 3, 12, 15, 10, 7, 14, 0, 1, 7, 3, 12, 13, 14, 3, 7, 4, 14, 13, 9, 1, 9, 14, 9, 10, 8, 12, 13, 0, 12, 0, 12, 9, 4, 7, 12, 14, 10, 1, 4, 6, 8, 4, 2, 9, 0, 2, 2, 9, 10, 4, 4, 8, 15, 11, 8, 0, 3, 3, 8, 10, 4, 14, 9>>)))
    @@
    ((("(None, 1)0af7ba66f9a27ed0e229221aada0cc88d5d6fd58f46f72eb626bd37b8e94efc80f953d12a939fe4ef354fff77564841627136a6bf3667b256c4a5cb6768788da7d3c95f98bd2b66af7c1d3a16cad13e01562539e02afc9695b86a5416092645f"
        :> <<13, 2, 3, 2, 14, 10, 12, 3, 5, 10, 13, 2, 1, 0, 8, 7, 2, 15, 0, 0, 9, 0, 11, 15, 3, 13, 10, 15, 9, 0, 4, 12, 8, 1, 14, 15, 7, 14, 13, 12, 0, 15, 8, 9, 3, 13, 13, 1, 10, 13, 12, 0, 8, 15, 13, 1, 5, 10, 6, 7, 9, 14, 2, 3>>)
    @@
    ("(None, 1)0af7ba66f9a27ed0e229221aada0cc88d5d6fd58f46f72eb626bd37b8e94efc8140fc148a380d69b8753d296355d450a4c606dfa652482747ab694cd6ac23972"
        :> <<12, 0, 6, 6, 11, 14, 14, 5, 14, 13, 4, 2, 8, 12, 1, 13, 0, 7, 9, 6, 15, 2, 14, 0, 10, 10, 4, 12, 6, 14, 13, 5, 8, 14, 11, 3, 15, 3, 5, 6, 3, 4, 1, 15, 6, 8, 3, 14, 7, 9, 9, 2, 11, 1, 4, 0, 8, 10, 2, 2, 8, 4, 2, 15>>))
    @@
    (("(None, 1)0af7ba66f9a27ed0e229221aada0cc88d5d6fd58f46f72eb626bd37b8e94efc8140fc148a380d69b8753d296355d450a4c606dfa652482747ab694cd6ac239720af7ba66f9a27ed0e229221aada0cc88d5d6fd58f46f72eb626bd37b8e94efc8"
        :> <<12, 3, 3, 0, 7, 2, 2, 3, 8, 1, 7, 12, 13, 11, 4, 15, 3, 5, 6, 12, 3, 5, 3, 12, 9, 5, 7, 3, 14, 3, 12, 3, 9, 14, 0, 4, 6, 0, 15, 10, 14, 2, 10, 0, 6, 1, 13, 3, 10, 13, 4, 13, 0, 15, 14, 12, 15, 9, 12, 12, 14, 3, 11, 6>>)
    @@
    ("(None, 1)0af7ba66f9a27ed0e229221aada0cc88d5d6fd58f46f72eb626bd37b8e94efc8140fc148a380d69b8753d296355d450a4c606dfa652482747ab694cd6ac239720f953d12a939fe4ef354fff77564841627136a6bf3667b256c4a5cb6768788da"
        :> <<12, 1, 6, 11, 12, 6, 8, 8, 12, 7, 0, 0, 10, 15, 12, 7, 13, 14, 11, 14, 7, 3, 0, 1, 6, 1, 6, 1, 12, 1, 6, 4, 6, 14, 11, 0, 5, 14, 2, 12, 13, 14, 7, 15, 9, 13, 7, 13, 13, 10, 1, 0, 9, 13, 0, 5, 4, 3, 13, 3, 4, 0, 14, 9>>)))))
    @@
    (((("(None, 1)0af7ba66f9a27ed0e229221aada0cc88d5d6fd58f46f72eb626bd37b8e94efc8140fc148a380d69b8753d296355d450a4c606dfa652482747ab694cd6ac23972140fc148a380d69b8753d296355d450a4c606dfa652482747ab694cd6ac23972"
        :> <<13, 7, 0, 8, 9, 12, 13, 4, 13, 14, 1, 11, 2, 4, 10, 14, 12, 7, 1, 10, 5, 11, 12, 1, 3, 0, 8, 5, 9, 3, 2, 0, 2, 4, 1, 5, 15, 3, 15, 15, 13, 7, 6, 13, 6, 11, 4, 11, 12, 3, 10, 13, 14, 7, 6, 4, 9, 9, 8, 15, 14, 1, 5, 3>>)
    @@
    (("(None, 1)0af7ba66f9a27ed0e229221aada0cc88d5d6fd58f46f72eb626bd37b8e94efc8140fc148a380d69b8753d296355d450a4c606dfa652482747ab694cd6ac239727d3c95f98bd2b66af7c1d3a16cad13e01562539e02afc9695b86a5416092645f"
        :> <<2, 13, 7, 15, 12, 1, 3, 13, 13, 2, 0, 13, 1, 5, 4, 6, 0, 0, 14, 14, 1, 11, 9, 1, 2, 12, 1, 0, 10, 4, 0, 11, 15, 0, 3, 8, 13, 8, 8, 9, 1, 8, 1, 5, 11, 9, 9, 9, 11, 7, 2, 5, 9, 14, 11, 10, 1, 6, 3, 12, 11, 4, 2, 7>>)
    @@
    ("(None, 1)0af7ba66f9a27ed0e229221aada0cc88d5d6fd58f46f72eb626bd37b8e94efc87d3c95f98bd2b66af7c1d3a16cad13e01562539e02afc9695b86a5416092645f"
        :> <<14, 3, 10, 9, 3, 11, 11, 5, 6, 14, 11, 0, 0, 11, 7, 4, 14, 8, 2, 5, 11, 10, 10, 11, 15, 7, 14, 2, 2, 8, 7, 15, 11, 4, 13, 11, 9, 9, 10, 2, 3, 1, 0, 15, 15, 12, 1, 7, 1, 14, 3, 0, 11, 1, 3, 3, 5, 15, 7, 11, 0, 4, 15, 7>>)))
    @@
    (("(None, 1)0af7ba66f9a27ed0e229221aada0cc88d5d6fd58f46f72eb626bd37b8e94efc87d3c95f98bd2b66af7c1d3a16cad13e01562539e02afc9695b86a5416092645f0af7ba66f9a27ed0e229221aada0cc88d5d6fd58f46f72eb626bd37b8e94efc8"
        :> <<5, 0, 6, 1, 4, 6, 14, 6, 15, 5, 3, 6, 11, 1, 14, 8, 11, 8, 3, 1, 8, 4, 0, 13, 12, 3, 12, 12, 8, 2, 8, 14, 6, 1, 1, 7, 13, 3, 10, 7, 6, 15, 10, 15, 4, 5, 9, 5, 13, 8, 8, 7, 8, 2, 15, 5, 14, 1, 3, 9, 14, 10, 14, 9>>)
    @@
    (("(None, 1)0af7ba66f9a27ed0e229221aada0cc88d5d6fd58f46f72eb626bd37b8e94efc87d3c95f98bd2b66af7c1d3a16cad13e01562539e02afc9695b86a5416092645f0f953d12a939fe4ef354fff77564841627136a6bf3667b256c4a5cb6768788da"
        :> <<13, 8, 15, 1, 7, 5, 3, 8, 10, 11, 5, 1, 10, 8, 5, 0, 5, 8, 12, 9, 12, 6, 10, 12, 15, 1, 11, 4, 5, 4, 10, 3, 1, 3, 1, 3, 14, 15, 2, 9, 10, 4, 3, 10, 3, 10, 6, 9, 13, 4, 7, 8, 13, 2, 2, 3, 13, 8, 5, 14, 8, 0, 4, 1>>)
    @@
    ("(None, 1)0af7ba66f9a27ed0e229221aada0cc88d5d6fd58f46f72eb626bd37b8e94efc87d3c95f98bd2b66af7c1d3a16cad13e01562539e02afc9695b86a5416092645f140fc148a380d69b8753d296355d450a4c606dfa652482747ab694cd6ac23972"
        :> <<0, 6, 15, 5, 4, 6, 4, 12, 6, 6, 15, 1, 9, 2, 15, 1, 3, 13, 9, 15, 11, 14, 7, 1, 15, 1, 12, 5, 11, 7, 4, 15, 13, 5, 5, 6, 11, 12, 0, 11, 0, 5, 10, 1, 14, 0, 2, 11, 10, 1, 12, 2, 4, 14, 2, 0, 4, 13, 12, 1, 8, 10, 4, 0>>))))
    @@
    ((("(None, 1)0af7ba66f9a27ed0e229221aada0cc88d5d6fd58f46f72eb626bd37b8e94efc87d3c95f98bd2b66af7c1d3a16cad13e01562539e02afc9695b86a5416092645f7d3c95f98bd2b66af7c1d3a16cad13e01562539e02afc9695b86a5416092645f"
        :> <<0, 2, 7, 5, 10, 9, 12, 9, 15, 15, 2, 15, 0, 1, 2, 0, 8, 8, 10, 0, 11, 2, 1, 11, 2, 7, 7, 14, 1, 11, 15, 6, 15, 2, 10, 11, 7, 13, 1, 12, 15, 11, 5, 1, 0, 13, 2, 1, 13, 3, 6, 4, 4, 0, 14, 0, 8, 5, 8, 10, 13, 8, 11, 1>>)
    @@
    (("(None, 1)0f953d12a939fe4ef354fff77564841627136a6bf3667b256c4a5cb6768788da"
        :> <<8, 12, 4, 5, 11, 1, 5, 8, 14, 3, 12, 5, 7, 7, 1, 12, 2, 13, 12, 7, 10, 11, 0, 12, 3, 10, 5, 11, 6, 3, 5, 0, 8, 13, 2, 0, 11, 1, 0, 4, 0, 10, 9, 9, 0, 14, 0, 13, 8, 13, 15, 15, 11, 0, 15, 11, 7, 3, 6, 11, 12, 11, 6, 4>>)
    @@
    ("(None, 1)0f953d12a939fe4ef354fff77564841627136a6bf3667b256c4a5cb6768788da0af7ba66f9a27ed0e229221aada0cc88d5d6fd58f46f72eb626bd37b8e94efc8"
        :> <<10, 1, 15, 8, 7, 6, 1, 1, 5, 11, 5, 7, 14, 3, 11, 15, 12, 10, 15, 12, 10, 15, 6, 1, 7, 2, 12, 14, 12, 11, 8, 12, 15, 15, 13, 0, 5, 14, 3, 3, 0, 6, 4, 5, 15, 12, 10, 12, 11, 15, 14, 12, 15, 4, 10, 4, 3, 4, 10, 9, 10, 9, 15, 11>>)))
    @@
    ((("(None, 1)0f953d12a939fe4ef354fff77564841627136a6bf3667b256c4a5cb6768788da0af7ba66f9a27ed0e229221aada0cc88d5d6fd58f46f72eb626bd37b8e94efc80af7ba66f9a27ed0e229221aada0cc88d5d6fd58f46f72eb626bd37b8e94efc8"
        :> <<5, 14, 1, 7, 10, 15, 13, 9, 12, 7, 9, 14, 8, 5, 4, 4, 14, 9, 8, 6, 15, 14, 9, 12, 5, 1, 1, 7, 15, 11, 3, 1, 1, 8, 9, 1, 4, 2, 8, 3, 14, 6, 9, 2, 15, 14, 4, 11, 2, 7, 10, 15, 2, 10, 10, 6, 2, 3, 13, 8, 7, 12, 10, 12>>)
    @@
    ("(None, 1)0f953d12a939fe4ef354fff77564841627136a6bf3667b256c4a5cb6768788da0af7ba66f9a27ed0e229221aada0cc88d5d6fd58f46f72eb626bd37b8e94efc80f953d12a939fe4ef354fff77564841627136a6bf3667b256c4a5cb6768788da"
        :> <<10, 14, 15, 9, 10, 5, 3, 10, 1, 6, 0, 7, 15, 3, 14, 10, 1, 15, 14, 1, 12, 0, 12, 5, 7, 9, 6, 15, 5, 4, 0, 11, 11, 14, 11, 14, 13, 14, 13, 1, 14, 2, 15, 9, 2, 8, 13, 8, 12, 9, 10, 10, 5, 1, 9, 2, 8, 9, 14, 10, 11, 15, 10, 14>>))
    @@
    (("(None, 1)0f953d12a939fe4ef354fff77564841627136a6bf3667b256c4a5cb6768788da0af7ba66f9a27ed0e229221aada0cc88d5d6fd58f46f72eb626bd37b8e94efc8140fc148a380d69b8753d296355d450a4c606dfa652482747ab694cd6ac23972"
        :> <<12, 5, 6, 9, 1, 14, 1, 5, 6, 0, 14, 5, 13, 9, 12, 2, 12, 11, 15, 10, 4, 2, 7, 0, 1, 0, 10, 5, 10, 8, 13, 2, 10, 4, 13, 13, 12, 11, 9, 11, 7, 3, 15, 8, 12, 13, 5, 10, 7, 12, 0, 5, 2, 3, 8, 13, 9, 12, 13, 4, 2, 15, 13, 11>>)
    @@
    ("(None, 1)0f953d12a939fe4ef354fff77564841627136a6bf3667b256c4a5cb6768788da0af7ba66f9a27ed0e229221aada0cc88d5d6fd58f46f72eb626bd37b8e94efc87d3c95f98bd2b66af7c1d3a16cad13e01562539e02afc9695b86a5416092645f"
        :> <<11, 2, 15, 2, 11, 13, 0, 8, 5, 11, 6, 9, 15, 2, 1, 1, 12, 6, 14, 4, 10, 10, 12, 13, 4, 1, 0, 3, 6, 11, 5, 9, 4, 8, 14, 15, 13, 3, 11, 1, 12, 0, 0, 12, 2, 12, 2, 3, 14, 12, 12, 15, 5, 5, 5, 8, 7, 1, 2, 2, 2, 8, 4, 12>>))))))
    @@
    ((((("(None, 1)0f953d12a939fe4ef354fff77564841627136a6bf3667b256c4a5cb6768788da0f953d12a939fe4ef354fff77564841627136a6bf3667b256c4a5cb6768788da"
        :> <<8, 11, 1, 8, 6, 13, 2, 8, 1, 13, 14, 13, 7, 10, 10, 10, 12, 4, 15, 1, 15, 10, 2, 0, 8, 12, 11, 3, 10, 15, 10, 14, 7, 0, 3, 11, 1, 0, 6, 14, 15, 2, 10, 6, 8, 2, 0, 6, 13, 8, 4, 0, 4, 11, 3, 7, 6, 5, 4, 14, 6, 12, 10, 9>>)
    @@
    (("(None, 1)0f953d12a939fe4ef354fff77564841627136a6bf3667b256c4a5cb6768788da0f953d12a939fe4ef354fff77564841627136a6bf3667b256c4a5cb6768788da0af7ba66f9a27ed0e229221aada0cc88d5d6fd58f46f72eb626bd37b8e94efc8"
        :> <<0, 7, 14, 14, 12, 14, 9, 3, 14, 14, 4, 9, 2, 4, 13, 14, 8, 7, 8, 11, 15, 6, 8, 0, 14, 11, 12, 6, 11, 0, 12, 5, 3, 4, 9, 9, 11, 14, 10, 12, 15, 11, 2, 0, 15, 8, 6, 11, 1, 15, 2, 3, 10, 13, 11, 8, 6, 8, 1, 4, 4, 15, 2, 13>>)
    @@
    ("(None, 1)0f953d12a939fe4ef354fff77564841627136a6bf3667b256c4a5cb6768788da0f953d12a939fe4ef354fff77564841627136a6bf3667b256c4a5cb6768788da0f953d12a939fe4ef354fff77564841627136a6bf3667b256c4a5cb6768788da"
        :> <<11, 0, 9, 0, 8, 11, 3, 10, 3, 3, 11, 12, 9, 15, 7, 4, 6, 3, 1, 5, 12, 14, 8, 9, 14, 7, 7, 10, 3, 8, 1, 14, 4, 1, 15, 9, 3, 5, 5, 0, 2, 14, 4, 12, 5, 5, 2, 2, 11, 5, 12, 9, 13, 7, 4, 8, 11, 1, 5, 2, 1, 9, 4, 13>>)))
    @@
    (("(None, 1)0f953d12a939fe4ef354fff77564841627136a6bf3667b256c4a5cb6768788da0f953d12a939fe4ef354fff77564841627136a6bf3667b256c4a5cb6768788da140fc148a380d69b8753d296355d450a4c606dfa652482747ab694cd6ac23972"
        :> <<14, 13, 15, 11, 15, 2, 15, 5, 6, 13, 9, 7, 8, 9, 13, 2, 6, 14, 3, 0, 15, 8, 10, 1, 10, 9, 6, 10, 9, 14, 2, 2, 15, 4, 9, 8, 7, 6, 10, 4, 11, 9, 3, 12, 7, 4, 14, 4, 7, 11, 10, 1, 7, 5, 10, 12, 1, 9, 13, 7, 13, 5, 0, 1>>)
    @@
    (("(None, 1)0f953d12a939fe4ef354fff77564841627136a6bf3667b256c4a5cb6768788da0f953d12a939fe4ef354fff77564841627136a6bf3667b256c4a5cb6768788da7d3c95f98bd2b66af7c1d3a16cad13e01562539e02afc9695b86a5416092645f"
        :> <<14, 0, 2, 0, 10, 1, 10, 11, 1, 4, 4, 14, 3, 6, 15, 12, 11, 9, 0, 5, 13, 15, 15, 9, 0, 1, 7, 2, 12, 9, 8, 6, 7, 11, 1, 6, 6, 15, 2, 4, 5, 11, 13, 0, 0, 13, 7, 6, 7, 1, 15, 11, 3, 9, 2, 9, 10, 2, 5, 12, 14, 5, 2, 14>>)
    @@
    ("(None, 1)0f953d12a939fe4ef354fff77564841627136a6bf3667b256c4a5cb6768788da140fc148a380d69b8753d296355d450a4c606dfa652482747ab694cd6ac23972"
        :> <<6, 6, 15, 12, 5, 0, 2, 11, 0, 8, 5, 14, 6, 2, 10, 2, 15, 10, 5, 10, 0, 2, 8, 15, 9, 2, 14, 4, 14, 11, 1, 12, 6, 7, 13, 12, 4, 2, 10, 1, 9, 7, 2, 1, 5, 10, 10, 13, 15, 15, 0, 9, 15, 14, 10, 2, 7, 12, 10, 9, 6, 5, 5, 13>>))))
    @@
    ((("(None, 1)0f953d12a939fe4ef354fff77564841627136a6bf3667b256c4a5cb6768788da140fc148a380d69b8753d296355d450a4c606dfa652482747ab694cd6ac239720af7ba66f9a27ed0e229221aada0cc88d5d6fd58f46f72eb626bd37b8e94efc8"
        :> <<10, 15, 12, 3, 9, 6, 13, 11, 3, 13, 10, 11, 9, 11, 6, 11, 3, 7, 14, 13, 3, 11, 1, 12, 0, 5, 7, 8, 8, 4, 0, 4, 12, 3, 7, 13, 1, 13, 14, 1, 15, 10, 3, 11, 14, 1, 1, 9, 1, 4, 0, 7, 5, 10, 1, 12, 7, 11, 3, 15, 11, 8, 5, 15>>)
    @@
    (("(None, 1)0f953d12a939fe4ef354fff77564841627136a6bf3667b256c4a5cb6768788da140fc148a380d69b8753d296355d450a4c606dfa652482747ab694cd6ac239720f953d12a939fe4ef354fff77564841627136a6bf3667b256c4a5cb6768788da"
        :> <<3, 10, 10, 2, 13, 7, 4, 3, 3, 10, 6, 4, 15, 1, 4, 13, 14, 15, 11, 8, 6, 0, 8, 8, 13, 2, 7, 8, 10, 12, 12, 6, 11, 14, 12, 2, 0, 13, 8, 12, 12, 10, 2, 6, 7, 0, 13, 7, 6, 4, 15, 10, 14, 0, 12, 3, 7, 9, 7, 12, 12, 2, 0, 0>>)
    @@
    ("(None, 1)0f953d12a939fe4ef354fff77564841627136a6bf3667b256c4a5cb6768788da140fc148a380d69b8753d296355d450a4c606dfa652482747ab694cd6ac23972140fc148a380d69b8753d296355d450a4c606dfa652482747ab694cd6ac23972"
        :> <<10, 7, 3, 13, 7, 12, 7, 2, 0, 0, 1, 6, 6, 7, 5, 11, 15, 8, 9, 15, 14, 8, 9, 9, 13, 9, 11, 4, 6, 11, 1, 7, 2, 6, 7, 8, 2, 7, 6, 13, 10, 13, 9, 2, 6, 14, 9, 15, 11, 14, 14, 10, 4, 15, 10, 8, 15, 11, 1, 11, 9, 8, 2, 13>>)))
    @@
    ((("(None, 1)0f953d12a939fe4ef354fff77564841627136a6bf3667b256c4a5cb6768788da140fc148a380d69b8753d296355d450a4c606dfa652482747ab694cd6ac239727d3c95f98bd2b66af7c1d3a16cad13e01562539e02afc9695b86a5416092645f"
        :> <<9, 11, 13, 7, 10, 2, 0, 15, 11, 9, 13, 3, 3, 2, 15, 11, 2, 8, 8, 15, 0, 4, 2, 1, 10, 9, 11, 8, 14, 1, 11, 4, 11, 5, 8, 11, 4, 14, 5, 2, 0, 13, 13, 11, 4, 11, 10, 2, 14, 4, 8, 15, 12, 14, 9, 15, 6, 6, 12, 3, 11, 13, 7, 13>>)
    @@
    ("(None, 1)0f953d12a939fe4ef354fff77564841627136a6bf3667b256c4a5cb6768788da7d3c95f98bd2b66af7c1d3a16cad13e01562539e02afc9695b86a5416092645f"
        :> <<14, 10, 1, 9, 3, 12, 7, 1, 13, 15, 3, 2, 0, 0, 7, 0, 8, 15, 13, 7, 2, 9, 14, 3, 6, 7, 12, 4, 15, 6, 13, 1, 5, 4, 8, 13, 11, 6, 3, 0, 1, 0, 10, 1, 14, 6, 3, 9, 8, 9, 0, 11, 7, 7, 7, 1, 8, 11, 11, 2, 1, 15, 11, 7>>))
    @@
    (("(None, 1)0f953d12a939fe4ef354fff77564841627136a6bf3667b256c4a5cb6768788da7d3c95f98bd2b66af7c1d3a16cad13e01562539e02afc9695b86a5416092645f0af7ba66f9a27ed0e229221aada0cc88d5d6fd58f46f72eb626bd37b8e94efc8"
        :> <<4, 12, 11, 8, 12, 11, 6, 14, 8, 13, 15, 9, 1, 10, 11, 11, 10, 11, 10, 3, 8, 15, 6, 7, 0, 13, 10, 1, 10, 5, 11, 3, 7, 2, 2, 11, 14, 0, 3, 10, 2, 12, 11, 15, 4, 14, 15, 1, 15, 14, 0, 9, 6, 10, 13, 8, 8, 15, 5, 1, 12, 1, 14, 11>>)
    @@
    ("(None, 1)0f953d12a939fe4ef354fff77564841627136a6bf3667b256c4a5cb6768788da7d3c95f98bd2b66af7c1d3a16cad13e01562539e02afc9695b86a5416092645f0f953d12a939fe4ef354fff77564841627136a6bf3667b256c4a5cb6768788da"
        :> <<7, 1, 13, 0, 3, 6, 10, 9, 4, 14, 1, 13, 9, 12, 0, 6, 12, 11, 8, 2, 9, 6, 12, 2, 13, 13, 8, 1, 2, 4, 8, 4, 9, 3, 7, 3, 4, 0, 9, 2, 13, 7, 6, 15, 15, 3, 2, 5, 1, 14, 4, 2, 2, 0, 11, 12, 7, 3, 2, 4, 14, 11, 8, 4>>)))))
    @@
    (((("(None, 1)0f953d12a939fe4ef354fff77564841627136a6bf3667b256c4a5cb6768788da7d3c95f98bd2b66af7c1d3a16cad13e01562539e02afc9695b86a5416092645f140fc148a380d69b8753d296355d450a4c606dfa652482747ab694cd6ac23972"
        :> <<8, 13, 14, 3, 0, 11, 3, 3, 11, 11, 12, 13, 6, 11, 3, 6, 12, 8, 12, 10, 10, 10, 12, 12, 8, 4, 1, 2, 9, 6, 13, 1, 2, 3, 4, 0, 13, 9, 5, 10, 12, 14, 3, 2, 14, 15, 5, 15, 12, 1, 12, 11, 13, 3, 10, 14, 9, 6, 9, 7, 8, 15, 10, 8>>)
    @@
    (("(None, 1)0f953d12a939fe4ef354fff77564841627136a6bf3667b256c4a5cb6768788da7d3c95f98bd2b66af7c1d3a16cad13e01562539e02afc9695b86a5416092645f7d3c95f98bd2b66af7c1d3a16cad13e01562539e02afc9695b86a5416092645f"
        :> <<3, 2, 9, 4, 12, 3, 8, 7, 6, 13, 6, 13, 3, 1, 2, 3, 13, 2, 7, 5, 1, 15, 8, 3, 8, 10, 6, 2, 13, 10, 2, 14, 13, 8, 8, 3, 11, 10, 10, 5, 4, 14, 10, 4, 3, 2, 13, 1, 14, 9, 4, 2, 5, 8, 5, 10, 12, 11, 1, 0, 3, 5, 7, 4>>)
    @@
    ("(None, 1)140fc148a380d69b8753d296355d450a4c606dfa652482747ab694cd6ac23972"
        :> <<13, 4, 6, 15, 8, 8, 3, 14, 0, 12, 10, 8, 5, 4, 0, 3, 8, 8, 6, 5, 11, 10, 12, 4, 15, 6, 2, 15, 12, 0, 4, 2, 0, 14, 9, 14, 4, 1, 15, 13, 11, 6, 11, 3, 10, 0, 12, 9, 8, 13, 2, 10, 14, 10, 13, 0, 15, 13, 9, 2, 7, 10, 2, 5>>)))
    @@
    (("(None, 1)140fc148a380d69b8753d296355d450a4c606dfa652482747ab694cd6ac239720af7ba66f9a27ed0e229221aada0cc88d5d6fd58f46f72eb626bd37b8e94efc8"
        :> <<4, 3, 5, 11, 3, 0, 14, 4, 3, 11, 11, 0, 7, 7, 2, 6, 7, 10, 10, 8, 5, 12, 9, 8, 12, 5, 3, 13, 4, 10, 9, 8, 6, 13, 2, 4, 13, 8, 6, 9, 4, 15, 5, 8, 12, 5, 6, 12, 12, 11, 3, 0, 11, 14, 0, 14, 15, 5, 3, 3, 0, 2, 6, 5>>)
    @@
    (("(None, 1)140fc148a380d69b8753d296355d450a4c606dfa652482747ab694cd6ac239720af7ba66f9a27ed0e229221aada0cc88d5d6fd58f46f72eb626bd37b8e94efc80af7ba66f9a27ed0e229221aada0cc88d5d6fd58f46f72eb626bd37b8e94efc8"
        :> <<2, 4, 4, 6, 14, 9, 5, 6, 15, 9, 1, 8, 14, 8, 6, 9, 10, 14, 5, 4, 1, 14, 10, 9, 12, 10, 15, 12, 12, 13, 9, 10, 1, 11, 12, 4, 6, 12, 7, 13, 6, 11, 10, 9, 4, 4, 8, 0, 7, 10, 7, 11, 4, 15, 1, 9, 4, 14, 15, 9, 1, 13, 10, 13>>)
    @@
    ("(None, 1)140fc148a380d69b8753d296355d450a4c606dfa652482747ab694cd6ac239720af7ba66f9a27ed0e229221aada0cc88d5d6fd58f46f72eb626bd37b8e94efc80f953d12a939fe4ef354fff77564841627136a6bf3667b256c4a5cb6768788da"
        :> <<15, 6, 9, 9, 1, 10, 6, 2, 6, 7, 12, 15, 4, 6, 11, 15, 14, 8, 8, 11, 1, 5, 2, 13, 12, 2, 5, 9, 2, 6, 14, 15, 7, 8, 8, 14, 9, 12, 14, 5, 11, 15, 6, 5, 12, 8, 15, 6, 7, 3, 12, 5, 11, 2, 12, 8, 9, 10, 6, 8, 6, 15, 12, 13>>))))
    @@
    ((("(None, 1)140fc148a380d69b8753d296355d450a4c606dfa652482747ab694cd6ac239720af7ba66f9a27ed0e229221aada0cc88d5d6fd58f46f72eb626bd37b8e94efc8140fc148a380d69b8753d296355d450a4c606dfa652482747ab694cd6ac23972"
        :> <<7, 12, 10, 0, 5, 5, 10, 10, 2, 12, 7, 13, 12, 7, 9, 0, 9, 6, 11, 2, 14, 9, 12, 14, 1, 3, 9, 10, 15, 0, 9, 9, 5, 7, 10, 4, 1, 11, 3, 6, 7, 2, 13, 15, 5, 9, 3, 3, 2, 9, 1, 1, 1, 10, 14, 3, 8, 4, 13, 8, 8, 11, 7, 14>>)
    @@
    (("(None, 1)140fc148a380d69b8753d296355d450a4c606dfa652482747ab694cd6ac239720af7ba66f9a27ed0e229221aada0cc88d5d6fd58f46f72eb626bd37b8e94efc87d3c95f98bd2b66af7c1d3a16cad13e01562539e02afc9695b86a5416092645f"
        :> <<0, 6, 6, 4, 13, 5, 10, 3, 14, 9, 13, 8, 13, 4, 10, 14, 12, 15, 13, 5, 6, 14, 2, 5, 12, 4, 4, 4, 14, 14, 7, 15, 1, 14, 9, 10, 7, 12, 14, 6, 2, 12, 2, 11, 10, 11, 13, 3, 4, 15, 11, 6, 12, 5, 11, 6, 6, 8, 5, 3, 11, 5, 8, 7>>)
    @@
    ("(None, 1)140fc148a380d69b8753d296355d450a4c606dfa652482747ab694cd6ac239720f953d12a939fe4ef354fff77564841627136a6bf3667b256c4a5cb6768788da"
        :> <<3, 15, 12, 12, 7, 1, 5, 8, 10, 1, 6, 2, 11, 15, 10, 10, 8, 1, 11, 7, 8, 15, 10, 4, 7, 11, 6, 14, 9, 0, 15, 5, 14, 12, 14, 3, 1, 4, 1, 4, 9, 1, 14, 12, 6, 14, 10, 10, 13, 12, 6, 15, 10, 0, 1, 13, 3, 8, 4, 5, 14, 12, 1, 5>>)))
    @@
    ((("(None, 1)140fc148a380d69b8753d296355d450a4c606dfa652482747ab694cd6ac239720f953d12a939fe4ef354fff77564841627136a6bf3667b256c4a5cb6768788da0af7ba66f9a27ed0e229221aada0cc88d5d6fd58f46f72eb626bd37b8e94efc8"
        :> <<6, 0, 11, 11, 5, 0, 5, 5, 4, 10, 2, 5, 9, 4, 10, 5, 15, 13, 2, 5, 8, 12, 8, 4, 8, 4, 6, 11, 6, 6, 9, 0, 0, 6, 2, 14, 8, 0, 2, 10, 13, 6, 9, 8, 10, 2, 0, 11, 3, 13, 7, 15, 10, 0, 11, 8, 1, 15, 14, 0, 8, 11, 2, 2>>)
    @@
    ("(None, 1)140fc148a380d69b8753d296355d450a4c606dfa652482747ab694cd6ac239720f953d12a939fe4ef354fff77564841627136a6bf3667b256c4a5cb6768788da0f953d12a939fe4ef354fff77564841627136a6bf3667b256c4a5cb6768788da"
        :> <<7, 10, 4, 6, 11, 15, 10, 4, 9, 13, 12, 0, 7, 8, 3, 7, 14, 0, 4, 10, 6, 1, 1, 8, 2, 11, 14, 3, 12, 4, 10, 12, 12, 8, 14, 9, 10, 12, 6, 5, 9, 0, 14, 14, 0, 5, 2, 8, 10, 9, 1, 8, 14, 5, 14, 8, 14, 9, 10, 10, 6, 3, 6, 0>>))
    @@
    (("(None, 1)140fc148a380d69b8753d296355d450a4c606dfa652482747ab694cd6ac239720f953d12a939fe4ef354fff77564841627136a6bf3667b256c4a5cb6768788da140fc148a380d69b8753d296355d450a4c606dfa652482747ab694cd6ac23972"
        :> <<0, 15, 15, 5, 3, 15, 15, 4, 2, 11, 11, 5, 8, 2, 3, 0, 4, 1, 2, 7, 13, 0, 14, 13, 13, 2, 5, 10, 5, 1, 6, 12, 14, 2, 9, 14, 5, 5, 8, 6, 5, 6, 15, 1, 10, 10, 3, 7, 3, 14, 9, 7, 10, 6, 15, 4, 10, 8, 3, 7, 0, 9, 0, 6>>)
    @@
    ("(None, 1)140fc148a380d69b8753d296355d450a4c606dfa652482747ab694cd6ac239720f953d12a939fe4ef354fff77564841627136a6bf3667b256c4a5cb6768788da7d3c95f98bd2b66af7c1d3a16cad13e01562539e02afc9695b86a5416092645f"
        :> <<0, 1, 9, 4, 8, 4, 12, 9, 5, 7, 11, 6, 5, 10, 10, 10, 9, 1, 2, 11, 8, 15, 3, 1, 5, 11, 13, 11, 7, 11, 13, 6, 3, 5, 0, 12, 9, 14, 1, 6, 11, 7, 5, 9, 6, 7, 2, 0, 8, 6, 12, 9, 5, 7, 3, 10, 4, 7, 14, 9, 6, 4, 0, 7>>))))))))
    @@
    ((((((("(None, 1)140fc148a380d69b8753d296355d450a4c606dfa652482747ab694cd6ac23972140fc148a380d69b8753d296355d450a4c606dfa652482747ab694cd6ac23972"
        :> <<2, 8, 14, 13, 12, 14, 5, 10, 8, 2, 2, 7, 1, 2, 5, 3, 12, 11, 12, 9, 10, 10, 7, 10, 4, 2, 0, 5, 1, 8, 8, 11, 13, 10, 11, 12, 8, 15, 15, 10, 1, 3, 1, 6, 2, 9, 2, 3, 10, 6, 8, 11, 9, 15, 0, 2, 12, 12, 12, 1, 6, 5, 9, 11>>)
    @@
    (("(None, 1)140fc148a380d69b8753d296355d450a4c606dfa652482747ab694cd6ac23972140fc148a380d69b8753d296355d450a4c606dfa652482747ab694cd6ac239720af7ba66f9a27ed0e229221aada0cc88d5d6fd58f46f72eb626bd37b8e94efc8"
        :> <<8, 1, 13, 11, 14, 4, 7, 0, 15, 7, 13, 12, 13, 1, 12, 11, 0, 5, 1, 14, 4, 15, 8, 2, 14, 15, 3, 7, 15, 12, 0, 9, 8, 15, 7, 8, 2, 3, 10, 4, 4, 15, 8, 8, 12, 13, 6, 1, 5, 1, 9, 14, 7, 10, 15, 5, 14, 0, 13, 7, 14, 3, 9, 5>>)
    @@
    ("(None, 1)140fc148a380d69b8753d296355d450a4c606dfa652482747ab694cd6ac23972140fc148a380d69b8753d296355d450a4c606dfa652482747ab694cd6ac239720f953d12a939fe4ef354fff77564841627136a6bf3667b256c4a5cb6768788da"
        :> <<12, 0, 13, 2, 10, 12, 7, 4, 12, 2, 5, 1, 3, 14, 10, 10, 10, 8, 10, 3, 4, 2, 12, 7, 11, 1, 1, 8, 7, 7, 15, 13, 5, 11, 7, 9, 10, 13, 7, 4, 3, 8, 0, 15, 2, 9, 4, 12, 8, 5, 14, 10, 13, 7, 1, 6, 13, 12, 11, 6, 0, 11, 14, 12>>)))
    @@
    (("(None, 1)140fc148a380d69b8753d296355d450a4c606dfa652482747ab694cd6ac23972140fc148a380d69b8753d296355d450a4c606dfa652482747ab694cd6ac23972140fc148a380d69b8753d296355d450a4c606dfa652482747ab694cd6ac23972"
        :> <<13, 14, 12, 6, 8, 2, 11, 2, 0, 1, 9, 10, 2, 11, 5, 8, 2, 7, 9, 2, 5, 1, 14, 8, 5, 6, 2, 2, 8, 4, 4, 3, 4, 4, 3, 14, 10, 7, 4, 8, 14, 11, 6, 8, 13, 6, 13, 6, 0, 11, 5, 10, 14, 11, 12, 14, 9, 6, 1, 9, 13, 6, 0, 5>>)
    @@
    (("(None, 1)140fc148a380d69b8753d296355d450a4c606dfa652482747ab694cd6ac23972140fc148a380d69b8753d296355d450a4c606dfa652482747ab694cd6ac239727d3c95f98bd2b66af7c1d3a16cad13e01562539e02afc9695b86a5416092645f"
        :> <<1, 11, 4, 15, 7, 15, 15, 8, 5, 4, 6, 1, 11, 5, 11, 8, 0, 7, 0, 6, 10, 2, 1, 6, 7, 2, 12, 1, 13, 5, 12, 2, 7, 13, 4, 8, 8, 7, 13, 12, 1, 0, 9, 4, 15, 7, 8, 14, 2, 2, 2, 10, 1, 6, 14, 0, 2, 6, 7, 5, 5, 3, 15, 4>>)
    @@
    ("(None, 1)140fc148a380d69b8753d296355d450a4c606dfa652482747ab694cd6ac239727d3c95f98bd2b66af7c1d3a16cad13e01562539e02afc9695b86a5416092645f"
        :> <<5, 0, 15, 15, 1, 13, 12, 9, 4, 2, 2, 14, 8, 9, 11, 13, 0, 5, 7, 11, 11, 1, 2, 15, 14, 9, 14, 4, 1, 1, 0, 13, 7, 0, 14, 15, 3, 2, 14, 1, 4, 2, 0, 11, 6, 12, 11, 1, 9, 14, 6, 11, 3, 4, 6, 13, 12, 5, 5, 14, 3, 13, 10, 15>>))))
    @@
    ((("(None, 1)140fc148a380d69b8753d296355d450a4c606dfa652482747ab694cd6ac239727d3c95f98bd2b66af7c1d3a16cad13e01562539e02afc9695b86a5416092645f0af7ba66f9a27ed0e229221aada0cc88d5d6fd58f46f72eb626bd37b8e94efc8"
        :> <<9, 6, 9, 5, 7, 13, 0, 9, 0, 13, 13, 5, 8, 7, 3, 9, 15, 2, 7, 4, 12, 6, 3, 12, 9, 6, 3, 11, 15, 3, 12, 5, 12, 6, 11, 12, 7, 14, 12, 5, 7, 2, 6, 3, 6, 15, 7, 12, 12, 15, 1, 11, 12, 14, 5, 6, 14, 7, 10, 7, 6, 11, 6, 8>>)
    @@
    (("(None, 1)140fc148a380d69b8753d296355d450a4c606dfa652482747ab694cd6ac239727d3c95f98bd2b66af7c1d3a16cad13e01562539e02afc9695b86a5416092645f0f953d12a939fe4ef354fff77564841627136a6bf3667b256c4a5cb6768788da"
        :> <<8, 15, 5, 10, 2, 5, 14, 9, 12, 12, 1, 13, 12, 11, 13, 5, 1, 8, 11, 1, 5, 1, 14, 0, 14, 13, 1, 15, 6, 8, 7, 11, 6, 2, 11, 2, 5, 15, 11, 3, 10, 9, 3, 13, 3, 4, 13, 8, 6, 7, 7, 0, 11, 15, 1, 11, 5, 8, 0, 9, 5, 6, 2, 15>>)
    @@
    ("(None, 1)140fc148a380d69b8753d296355d450a4c606dfa652482747ab694cd6ac239727d3c95f98bd2b66af7c1d3a16cad13e01562539e02afc9695b86a5416092645f140fc148a380d69b8753d296355d450a4c606dfa652482747ab694cd6ac23972"
        :> <<2, 10, 8, 2, 0, 0, 4, 8, 0, 4, 4, 2, 1, 4, 5, 9, 15, 11, 3, 11, 3, 12, 8, 9, 14, 10, 1, 10, 5, 7, 6, 13, 9, 5, 0, 3, 11, 10, 6, 11, 9, 3, 2, 8, 8, 2, 0, 8, 1, 4, 11, 7, 7, 2, 8, 2, 15, 1, 6, 8, 13, 8, 10, 0>>)))
    @@
    ((("(None, 1)140fc148a380d69b8753d296355d450a4c606dfa652482747ab694cd6ac239727d3c95f98bd2b66af7c1d3a16cad13e01562539e02afc9695b86a5416092645f7d3c95f98bd2b66af7c1d3a16cad13e01562539e02afc9695b86a5416092645f"
        :> <<3, 15, 1, 9, 4, 1, 2, 12, 12, 9, 2, 15, 4, 12, 2, 10, 14, 14, 13, 13, 10, 7, 10, 10, 10, 5, 5, 11, 14, 11, 13, 4, 4, 12, 7, 7, 8, 4, 11, 3, 4, 13, 10, 2, 14, 6, 7, 1, 1, 0, 8, 12, 15, 10, 10, 9, 4, 5, 0, 8, 14, 3, 13, 4>>)
    @@
    ("(None, 1)7d3c95f98bd2b66af7c1d3a16cad13e01562539e02afc9695b86a5416092645f"
        :> <<15, 2, 11, 1, 6, 4, 0, 9, 5, 3, 0, 0, 0, 15, 11, 7, 1, 6, 6, 1, 2, 14, 8, 6, 11, 13, 3, 10, 6, 9, 8, 12, 1, 1, 2, 14, 4, 8, 11, 4, 6, 11, 0, 2, 0, 9, 10, 5, 3, 1, 1, 1, 0, 6, 4, 10, 6, 2, 12, 6, 5, 2, 7, 1>>))
    @@
    (("(None, 1)7d3c95f98bd2b66af7c1d3a16cad13e01562539e02afc9695b86a5416092645f0af7ba66f9a27ed0e229221aada0cc88d5d6fd58f46f72eb626bd37b8e94efc8"
        :> <<5, 11, 11, 0, 13, 6, 9, 7, 5, 6, 12, 12, 8, 8, 11, 13, 7, 0, 10, 14, 12, 14, 6, 11, 15, 9, 1, 0, 6, 13, 9, 10, 6, 4, 4, 11, 7, 8, 14, 7, 2, 9, 9, 15, 9, 15, 2, 14, 0, 0, 14, 3, 7, 1, 2, 7, 5, 5, 4, 13, 13, 7, 5, 4>>)
    @@
    ("(None, 1)7d3c95f98bd2b66af7c1d3a16cad13e01562539e02afc9695b86a5416092645f0af7ba66f9a27ed0e229221aada0cc88d5d6fd58f46f72eb626bd37b8e94efc80af7ba66f9a27ed0e229221aada0cc88d5d6fd58f46f72eb626bd37b8e94efc8"
        :> <<11, 13, 13, 6, 2, 2, 14, 11, 2, 7, 6, 2, 9, 7, 11, 3, 6, 0, 11, 6, 8, 13, 12, 8, 0, 3, 9, 2, 13, 6, 13, 4, 2, 13, 12, 6, 13, 10, 2, 6, 15, 14, 10, 10, 4, 1, 13, 11, 7, 9, 11, 4, 12, 1, 2, 1, 8, 3, 12, 1, 1, 13, 15, 4>>)))))
    @@
    (((("(None, 1)7d3c95f98bd2b66af7c1d3a16cad13e01562539e02afc9695b86a5416092645f0af7ba66f9a27ed0e229221aada0cc88d5d6fd58f46f72eb626bd37b8e94efc80f953d12a939fe4ef354fff77564841627136a6bf3667b256c4a5cb6768788da"
        :> <<5, 5, 4, 13, 5, 4, 2, 14, 10, 12, 6, 3, 7, 10, 11, 9, 2, 9, 1, 15, 10, 2, 15, 2, 12, 7, 1, 10, 12, 12, 14, 0, 10, 14, 9, 15, 9, 4, 3, 10, 3, 1, 3, 3, 11, 7, 15, 1, 8, 14, 3, 11, 1, 4, 5, 15, 10, 14, 2, 9, 6, 12, 1, 2>>)
    @@
    (("(None, 1)7d3c95f98bd2b66af7c1d3a16cad13e01562539e02afc9695b86a5416092645f0af7ba66f9a27ed0e229221aada0cc88d5d6fd58f46f72eb626bd37b8e94efc8140fc148a380d69b8753d296355d450a4c606dfa652482747ab694cd6ac23972"
        :> <<2, 11, 1, 9, 0, 4, 1, 7, 11, 1, 0, 0, 4, 7, 6, 0, 13, 13, 9, 14, 3, 15, 2, 9, 6, 11, 11, 5, 15, 13, 5, 6, 4, 0, 5, 0, 1, 0, 14, 0, 9, 13, 2, 15, 15, 2, 9, 6, 13, 9, 8, 6, 13, 0, 11, 11, 11, 14, 12, 5, 9, 8, 9, 11>>)
    @@
    ("(None, 1)7d3c95f98bd2b66af7c1d3a16cad13e01562539e02afc9695b86a5416092645f0af7ba66f9a27ed0e229221aada0cc88d5d6fd58f46f72eb626bd37b8e94efc87d3c95f98bd2b66af7c1d3a16cad13e01562539e02afc9695b86a5416092645f"
        :> <<4, 3, 0, 7, 13, 7, 12, 12, 15, 0, 15, 11, 9, 5, 10, 4, 6, 12, 7, 13, 8, 2, 14, 10, 4, 3, 4, 1, 1, 14, 14, 4, 14, 12, 10, 9, 12, 10, 4, 1, 8, 15, 3, 9, 7, 13, 15, 9, 12, 0, 13, 11, 12, 11, 15, 6, 3, 8, 3, 10, 12, 14, 15, 11>>)))
    @@
    (("(None, 1)7d3c95f98bd2b66af7c1d3a16cad13e01562539e02afc9695b86a5416092645f0f953d12a939fe4ef354fff77564841627136a6bf3667b256c4a5cb6768788da"
        :> <<3, 2, 8, 13, 12, 9, 8, 10, 12, 9, 15, 10, 5, 3, 6, 7, 3, 5, 12, 14, 12, 15, 6, 15, 0, 1, 11, 2, 11, 5, 8, 10, 13, 7, 5, 8, 15, 7, 13, 15, 15, 10, 5, 2, 2, 4, 13, 12, 7, 13, 10, 2, 12, 5, 9, 3, 2, 7, 14, 13, 8, 6, 3, 6>>)
    @@
    (("(None, 1)7d3c95f98bd2b66af7c1d3a16cad13e01562539e02afc9695b86a5416092645f0f953d12a939fe4ef354fff77564841627136a6bf3667b256c4a5cb6768788da0af7ba66f9a27ed0e229221aada0cc88d5d6fd58f46f72eb626bd37b8e94efc8"
        :> <<5, 12, 1, 0, 10, 7, 14, 8, 2, 2, 0, 7, 10, 13, 12, 4, 11, 4, 8, 6, 2, 10, 1, 10, 15, 0, 10, 10, 6, 11, 2, 5, 11, 0, 6, 12, 1, 4, 15, 7, 11, 1, 15, 4, 1, 8, 14, 7, 9, 6, 10, 6, 1, 7, 13, 10, 1, 6, 5, 1, 1, 10, 9, 10>>)
    @@
    ("(None, 1)7d3c95f98bd2b66af7c1d3a16cad13e01562539e02afc9695b86a5416092645f0f953d12a939fe4ef354fff77564841627136a6bf3667b256c4a5cb6768788da0f953d12a939fe4ef354fff77564841627136a6bf3667b256c4a5cb6768788da"
        :> <<12, 10, 12, 15, 4, 8, 4, 3, 10, 8, 4, 14, 15, 5, 15, 2, 0, 1, 5, 8, 3, 4, 13, 12, 7, 14, 1, 6, 15, 6, 2, 11, 9, 4, 3, 8, 10, 10, 3, 10, 5, 9, 7, 1, 3, 3, 14, 3, 6, 1, 4, 5, 5, 12, 5, 14, 12, 11, 9, 1, 11, 4, 14, 2>>))))
    @@
    ((("(None, 1)7d3c95f98bd2b66af7c1d3a16cad13e01562539e02afc9695b86a5416092645f0f953d12a939fe4ef354fff77564841627136a6bf3667b256c4a5cb6768788da140fc148a380d69b8753d296355d450a4c606dfa652482747ab694cd6ac23972"
        :> <<10, 14, 4, 15, 9, 4, 0, 8, 5, 8, 9, 6, 1, 6, 9, 2, 7, 8, 3, 3, 2, 8, 12, 9, 0, 3, 14, 3, 10, 13, 7, 10, 5, 3, 4, 9, 10, 0, 6, 10, 12, 3, 6, 0, 6, 5, 5, 6, 14, 0, 9, 9, 4, 1, 9, 9, 4, 10, 2, 8, 8, 3, 7, 7>>)
    @@
    (("(None, 1)7d3c95f98bd2b66af7c1d3a16cad13e01562539e02afc9695b86a5416092645f0f953d12a939fe4ef354fff77564841627136a6bf3667b256c4a5cb6768788da7d3c95f98bd2b66af7c1d3a16cad13e01562539e02afc9695b86a5416092645f"
        :> <<3, 8, 14, 1, 14, 8, 9, 2, 0, 1, 15, 10, 14, 10, 0, 12, 5, 8, 9, 14, 7, 9, 1, 2, 2, 2, 3, 8, 12, 6, 6, 5, 5, 0, 6, 11, 12, 1, 14, 13, 15, 4, 13, 0, 12, 10, 0, 3, 12, 15, 13, 6, 8, 2, 12, 3, 4, 12, 14, 11, 0, 5, 10, 13>>)
    @@
    ("(None, 1)7d3c95f98bd2b66af7c1d3a16cad13e01562539e02afc9695b86a5416092645f140fc148a380d69b8753d296355d450a4c606dfa652482747ab694cd6ac23972"
        :> <<3, 14, 2, 12, 14, 6, 9, 4, 13, 7, 13, 0, 13, 4, 8, 2, 12, 7, 6, 1, 4, 6, 8, 9, 1, 4, 4, 7, 10, 6, 8, 1, 15, 1, 0, 10, 3, 2, 8, 0, 6, 10, 1, 11, 12, 8, 8, 4, 8, 12, 0, 8, 7, 4, 11, 5, 9, 1, 1, 1, 1, 6, 7, 5>>)))
    @@
    ((("(None, 1)7d3c95f98bd2b66af7c1d3a16cad13e01562539e02afc9695b86a5416092645f140fc148a380d69b8753d296355d450a4c606dfa652482747ab694cd6ac239720af7ba66f9a27ed0e229221aada0cc88d5d6fd58f46f72eb626bd37b8e94efc8"
        :> <<15, 8, 11, 14, 15, 14, 0, 3, 5, 11, 4, 13, 13, 11, 1, 3, 15, 14, 15, 0, 4, 2, 3, 8, 8, 7, 11, 2, 6, 6, 3, 0, 7, 0, 6, 9, 1, 10, 6, 2, 8, 9, 14, 7, 13, 7, 7, 3, 2, 4, 2, 8, 13, 10, 14, 7, 10, 7, 7, 0, 4, 0, 14, 8>>)
    @@
    ("(None, 1)7d3c95f98bd2b66af7c1d3a16cad13e01562539e02afc9695b86a5416092645f140fc148a380d69b8753d296355d450a4c606dfa652482747ab694cd6ac239720f953d12a939fe4ef354fff77564841627136a6bf3667b256c4a5cb6768788da"
        :> <<11, 11, 8, 8, 5, 11, 10, 6, 2, 3, 10, 13, 13, 14, 3, 8, 1, 2, 15, 1, 3, 15, 14, 7, 1, 1, 12, 2, 1, 2, 5, 4, 2, 10, 11, 4, 14, 1, 4, 10, 8, 2, 8, 0, 11, 4, 14, 10, 12, 5, 4, 11, 1, 15, 5, 4, 4, 12, 2, 14, 10, 15, 12, 4>>))
    @@
    (("(None, 1)7d3c95f98bd2b66af7c1d3a16cad13e01562539e02afc9695b86a5416092645f140fc148a380d69b8753d296355d450a4c606dfa652482747ab694cd6ac23972140fc148a380d69b8753d296355d450a4c606dfa652482747ab694cd6ac23972"
        :> <<1, 12, 3, 1, 10, 5, 0, 7, 4, 7, 14, 7, 7, 2, 0, 15, 10, 9, 4, 5, 4, 15, 6, 3, 1, 1, 7, 0, 2, 15, 5, 14, 15, 12, 3, 5, 7, 1, 6, 11, 7, 6, 15, 13, 7, 12, 9, 4, 7, 12, 10, 10, 5, 6, 15, 1, 13, 12, 6, 14, 5, 6, 15, 13>>)
    @@
    ("(None, 1)7d3c95f98bd2b66af7c1d3a16cad13e01562539e02afc9695b86a5416092645f140fc148a380d69b8753d296355d450a4c606dfa652482747ab694cd6ac239727d3c95f98bd2b66af7c1d3a16cad13e01562539e02afc9695b86a5416092645f"
        :> <<11, 2, 12, 11, 13, 1, 9, 5, 2, 0, 15, 7, 8, 2, 13, 15, 3, 4, 7, 7, 2, 15, 14, 8, 7, 4, 0, 0, 14, 13, 2, 6, 8, 5, 8, 1, 8, 14, 15, 5, 10, 6, 12, 12, 6, 0, 13, 0, 15, 6, 8, 15, 7, 12, 8, 4, 11, 10, 9, 6, 7, 12, 12, 2>>))))))
    @@
    ((((("(None, 1)7d3c95f98bd2b66af7c1d3a16cad13e01562539e02afc9695b86a5416092645f7d3c95f98bd2b66af7c1d3a16cad13e01562539e02afc9695b86a5416092645f"
        :> <<5, 14, 10, 11, 4, 4, 6, 1, 13, 11, 12, 8, 15, 7, 3, 15, 10, 7, 4, 1, 15, 1, 5, 14, 9, 5, 4, 5, 1, 0, 10, 12, 11, 1, 7, 8, 0, 4, 1, 3, 15, 12, 15, 14, 6, 10, 3, 8, 14, 14, 14, 3, 14, 2, 12, 7, 6, 5, 2, 4, 12, 8, 4, 6>>)
    @@
    (("(None, 1)7d3c95f98bd2b66af7c1d3a16cad13e01562539e02afc9695b86a5416092645f7d3c95f98bd2b66af7c1d3a16cad13e01562539e02afc9695b86a5416092645f0af7ba66f9a27ed0e229221aada0cc88d5d6fd58f46f72eb626bd37b8e94efc8"
        :> <<12, 4, 15, 13, 15, 2, 5, 12, 5, 14, 8, 4, 8, 2, 9, 9, 8, 7, 2, 2, 15, 9, 9, 7, 3, 12, 7, 5, 1, 12, 11, 2, 15, 15, 6, 4, 11, 13, 2, 15, 2, 12, 10, 3, 3, 5, 11, 10, 0, 15, 4, 3, 6, 6, 14, 9, 15, 3, 2, 10, 12, 0, 15, 11>>)
    @@
    ("(None, 1)7d3c95f98bd2b66af7c1d3a16cad13e01562539e02afc9695b86a5416092645f7d3c95f98bd2b66af7c1d3a16cad13e01562539e02afc9695b86a5416092645f0f953d12a939fe4ef354fff77564841627136a6bf3667b256c4a5cb6768788da"
        :> <<6, 13, 10, 0, 6, 7, 12, 2, 10, 5, 9, 12, 0, 14, 3, 3, 0, 5, 5, 15, 0, 10, 10, 6, 2, 5, 10, 14, 13, 0, 8, 12, 3, 5, 10, 9, 6, 5, 7, 8, 13, 12, 8, 14, 5, 10, 9, 1, 6, 1, 4, 8, 6, 13, 14, 2, 1, 7, 3, 2, 0, 7, 5, 13>>)))
    @@
    (("(None, 1)7d3c95f98bd2b66af7c1d3a16cad13e01562539e02afc9695b86a5416092645f7d3c95f98bd2b66af7c1d3a16cad13e01562539e02afc9695b86a5416092645f140fc148a380d69b8753d296355d450a4c606dfa652482747ab694cd6ac23972"
        :> <<5, 9, 14, 13, 13, 3, 11, 10, 5, 12, 15, 7, 1, 7, 7, 8, 12, 14, 8, 7, 7, 5, 9, 8, 11, 10, 5, 15, 8, 5, 13, 0, 8, 1, 15, 10, 9, 9, 12, 8, 10, 5, 2, 10, 14, 2, 12, 0, 12, 9, 13, 0, 13, 6, 1, 1, 13, 15, 2, 9, 8, 14, 4, 15>>)
    @@
    (("(None, 1)7d3c95f98bd2b66af7c1d3a16cad13e01562539e02afc9695b86a5416092645f7d3c95f98bd2b66af7c1d3a16cad13e01562539e02afc9695b86a5416092645f7d3c95f98bd2b66af7c1d3a16cad13e01562539e02afc9695b86a5416092645f"
        :> <<6, 2, 12, 14, 10, 13, 1, 11, 0, 9, 14, 8, 2, 13, 0, 6, 11, 6, 12, 6, 14, 9, 13, 6, 15, 11, 8, 4, 4, 5, 12, 15, 13, 6, 13, 5, 14, 5, 8, 3, 8, 3, 9, 13, 7, 4, 13, 3, 15, 10, 8, 5, 13, 10, 4, 0, 3, 2, 2, 14, 3, 6, 4, 4>>)
    @@
    ("(None, 2)"
        :> <<9, 6, 12, 12, 9, 15, 9, 3, 15, 12, 5, 8, 5, 5, 12, 15, 0, 13, 4, 10, 3, 1, 12, 0, 9, 5, 13, 7, 15, 7, 7, 9, 6, 9, 14, 5, 4, 15, 6, 9, 0, 13, 12, 10, 13, 5, 1, 12, 7, 8, 9, 15, 8, 10, 5, 4, 9, 9, 12, 11, 10, 5, 13, 10>>))))
    @@
    ((("(None, 2)0af7ba66f9a27ed0e229221aada0cc88d5d6fd58f46f72eb626bd37b8e94efc8"
        :> <<14, 7, 12, 9, 1, 14, 12, 4, 10, 2, 13, 4, 9, 5, 1, 7, 5, 15, 10, 13, 15, 5, 11, 12, 15, 14, 11, 3, 1, 1, 1, 1, 5, 4, 12, 6, 2, 11, 9, 0, 13, 7, 13, 2, 5, 7, 10, 12, 4, 7, 6, 4, 14, 5, 8, 10, 3, 10, 1, 15, 14, 10, 3, 4>>)
    @@
    (("(None, 2)0af7ba66f9a27ed0e229221aada0cc88d5d6fd58f46f72eb626bd37b8e94efc80af7ba66f9a27ed0e229221aada0cc88d5d6fd58f46f72eb626bd37b8e94efc8"
        :> <<7, 1, 5, 3, 2, 9, 15, 4, 10, 13, 4, 9, 13, 12, 1, 10, 3, 9, 9, 6, 8, 5, 5, 5, 7, 5, 13, 1, 9, 4, 4, 4, 4, 11, 4, 2, 11, 7, 8, 0, 10, 9, 13, 3, 7, 14, 11, 6, 1, 15, 7, 9, 2, 7, 1, 15, 15, 0, 2, 1, 6, 7, 15, 13>>)
    @@
    ("(None, 2)0af7ba66f9a27ed0e229221aada0cc88d5d6fd58f46f72eb626bd37b8e94efc80af7ba66f9a27ed0e229221aada0cc88d5d6fd58f46f72eb626bd37b8e94efc80af7ba66f9a27ed0e229221aada0cc88d5d6fd58f46f72eb626bd37b8e94efc8"
        :> <<4, 5, 14, 2, 1, 2, 4, 6, 4, 11, 1, 7, 15, 7, 8, 0, 6, 7, 14, 14, 1, 7, 0, 14, 10, 7, 2, 2, 5, 9, 15, 4, 13, 3, 6, 8, 10, 12, 3, 7, 4, 14, 12, 2, 8, 9, 11, 5, 10, 7, 1, 7, 14, 11, 1, 3, 1, 15, 13, 4, 10, 6, 12, 9>>)))
    @@
    ((("(None, 2)0af7ba66f9a27ed0e229221aada0cc88d5d6fd58f46f72eb626bd37b8e94efc80af7ba66f9a27ed0e229221aada0cc88d5d6fd58f46f72eb626bd37b8e94efc80f953d12a939fe4ef354fff77564841627136a6bf3667b256c4a5cb6768788da"
        :> <<13, 9, 7, 6, 7, 4, 11, 12, 13, 10, 0, 8, 11, 9, 5, 6, 7, 5, 5, 9, 8, 5, 5, 9, 0, 15, 15, 9, 11, 14, 13, 9, 9, 12, 2, 12, 1, 11, 12, 9, 14, 0, 4, 0, 12, 1, 9, 2, 15, 9, 6, 6, 15, 15, 14, 3, 8, 4, 11, 7, 9, 0, 13, 9>>)
    @@
    ("(None, 2)0af7ba66f9a27ed0e229221aada0cc88d5d6fd58f46f72eb626bd37b8e94efc80af7ba66f9a27ed0e229221aada0cc88d5d6fd58f46f72eb626bd37b8e94efc8140fc148a380d69b8753d296355d450a4c606dfa652482747ab694cd6ac23972"
        :> <<15, 14, 2, 10, 9, 7, 8, 0, 12, 1, 13, 11, 4, 5, 15, 13, 3, 13, 10, 6, 9, 9, 15, 9, 11, 6, 13, 1, 7, 2, 12, 13, 0, 12, 8, 0, 13, 8, 7, 6, 1, 9, 6, 7, 14, 10, 7, 12, 6, 7, 1, 15, 4, 6, 10, 0, 12, 12, 5, 11, 12, 10, 14, 15>>))
    @@
    (("(None, 2)0af7ba66f9a27ed0e229221aada0cc88d5d6fd58f46f72eb626bd37b8e94efc80af7ba66f9a27ed0e229221aada0cc88d5d6fd58f46f72eb626bd37b8e94efc87d3c95f98bd2b66af7c1d3a16cad13e01562539e02afc9695b86a5416092645f"
        :> <<1, 11, 4, 15, 8, 12, 11, 6, 2, 3, 15, 15, 3, 5, 11, 3, 4, 12, 3, 1, 5, 1, 5, 5, 3, 8, 10, 14, 1, 12, 8, 12, 6, 15, 8, 0, 1, 14, 11, 10, 7, 1, 11, 1, 4, 5, 9, 1, 8, 14, 6, 12, 0, 0, 2, 1, 11, 3, 10, 6, 6, 6, 14, 10>>)
    @@
    ("(None, 2)0af7ba66f9a27ed0e229221aada0cc88d5d6fd58f46f72eb626bd37b8e94efc80f953d12a939fe4ef354fff77564841627136a6bf3667b256c4a5cb6768788da"
        :> <<15, 10, 11, 8, 7, 12, 2, 2, 1, 4, 10, 2, 10, 11, 2, 7, 4, 7, 0, 1, 9, 11, 9, 15, 4, 8, 4, 7, 8, 7, 2, 13, 4, 0, 6, 7, 12, 1, 14, 5, 10, 14, 11, 14, 8, 1, 13, 1, 4, 7, 15, 8, 9, 2, 11, 1, 6, 10, 15, 5, 12, 1, 13, 7>>)))))
    @@
    (((("(None, 2)0af7ba66f9a27ed0e229221aada0cc88d5d6fd58f46f72eb626bd37b8e94efc80f953d12a939fe4ef354fff77564841627136a6bf3667b256c4a5cb6768788da0af7ba66f9a27ed0e229221aada0cc88d5d6fd58f46f72eb626bd37b8e94efc8"
        :> <<6, 4, 10, 13, 12, 6, 7, 5, 9, 4, 0, 4, 9, 13, 15, 11, 0, 2, 13, 14, 12, 8, 6, 7, 14, 8, 3, 8, 12, 0, 1, 8, 12, 1, 4, 0, 1, 15, 3, 12, 14, 1, 7, 15, 0, 2, 13, 7, 9, 9, 7, 1, 7, 3, 1, 14, 2, 7, 4, 2, 7, 7, 8, 9>>)
    @@
    (("(None, 2)0af7ba66f9a27ed0e229221aada0cc88d5d6fd58f46f72eb626bd37b8e94efc80f953d12a939fe4ef354fff77564841627136a6bf3667b256c4a5cb6768788da0f953d12a939fe4ef354fff77564841627136a6bf3667b256c4a5cb6768788da"
        :> <<4, 0, 3, 7, 14, 7, 11, 14, 7, 9, 9, 0, 1, 4, 3, 4, 0, 5, 12, 5, 9, 13, 10, 1, 8, 4, 9, 14, 14, 11, 12, 2, 12, 15, 6, 15, 10, 10, 0, 5, 4, 6, 0, 2, 0, 11, 3, 12, 12, 11, 4, 5, 3, 0, 4, 15, 0, 4, 6, 12, 11, 7, 5, 10>>)
    @@
    ("(None, 2)0af7ba66f9a27ed0e229221aada0cc88d5d6fd58f46f72eb626bd37b8e94efc80f953d12a939fe4ef354fff77564841627136a6bf3667b256c4a5cb6768788da140fc148a380d69b8753d296355d450a4c606dfa652482747ab694cd6ac23972"
        :> <<6, 8, 1, 15, 14, 3, 14, 11, 14, 11, 7, 10, 13, 1, 0, 1, 0, 3, 1, 7, 0, 12, 3, 8, 5, 11, 12, 2, 0, 11, 4, 13, 0, 1, 7, 6, 13, 7, 4, 6, 1, 11, 1, 9, 8, 15, 2, 5, 7, 7, 12, 14, 12, 1, 2, 13, 1, 6, 1, 3, 12, 5, 0, 3>>)))
    @@
    (("(None, 2)0af7ba66f9a27ed0e229221aada0cc88d5d6fd58f46f72eb626bd37b8e94efc80f953d12a939fe4ef354fff77564841627136a6bf3667b256c4a5cb6768788da7d3c95f98bd2b66af7c1d3a16cad13e01562539e02afc9695b86a5416092645f"
        :> <<7, 11, 15, 12, 5, 14, 7, 4, 3, 15, 11, 2, 8, 11, 5, 10, 0, 0, 0, 14, 1, 6, 9, 7, 14, 7, 13, 7, 12, 12, 7, 7, 9, 1, 2, 11, 4, 10, 10, 3, 14, 9, 3, 13, 9, 5, 13, 6, 14, 2, 1, 3, 4, 1, 10, 11, 10, 14, 5, 14, 2, 14, 8, 2>>)
    @@
    (("(None, 2)0af7ba66f9a27ed0e229221aada0cc88d5d6fd58f46f72eb626bd37b8e94efc8140fc148a380d69b8753d296355d450a4c606dfa652482747ab694cd6ac23972"
        :> <<7, 4, 0, 11, 3, 9, 9, 8, 4, 10, 1, 13, 11, 2, 6, 6, 11, 0, 6, 13, 15, 8, 8, 11, 9, 12, 14, 3, 14, 15, 4, 1, 10, 0, 7, 0, 2, 9, 12, 4, 10, 2, 7, 15, 3, 3, 14, 13, 12, 6, 0, 8, 7, 10, 11, 7, 14, 1, 8, 13, 3, 5, 2, 3>>)
    @@
    ("(None, 2)0af7ba66f9a27ed0e229221aada0cc88d5d6fd58f46f72eb626bd37b8e94efc8140fc148a380d69b8753d296355d450a4c606dfa652482747ab694cd6ac239720af7ba66f9a27ed0e229221aada0cc88d5d6fd58f46f72eb626bd37b8e94efc8"
        :> <<9, 15, 4, 5, 2, 4, 1, 5, 14, 5, 11, 7, 3, 1, 3, 13, 15, 1, 7, 3, 3, 15, 0, 2, 6, 1, 10, 15, 12, 9, 14, 7, 15, 1, 14, 6, 3, 6, 12, 10, 11, 9, 5, 12, 7, 10, 0, 1, 1, 10, 9, 15, 1, 0, 2, 3, 0, 13, 13, 11, 11, 2, 10, 1>>))))
    @@
    ((("(None, 2)0af7ba66f9a27ed0e229221aada0cc88d5d6fd58f46f72eb626bd37b8e94efc8140fc148a380d69b8753d296355d450a4c606dfa652482747ab694cd6ac239720f953d12a939fe4ef354fff77564841627136a6bf3667b256c4a5cb6768788da"
        :> <<6, 12, 6, 0, 15, 13, 8, 0, 12, 13, 1, 1, 0, 3, 6, 11, 6, 6, 13, 15, 11, 4, 14, 15, 3, 11, 3, 1, 10, 7, 11, 1, 2, 2, 7, 1, 9, 7, 14, 15, 9, 13, 15, 2, 11, 15, 15, 0, 11, 1, 0, 2, 4, 3, 4, 14, 11, 11, 11, 15, 8, 6, 0, 8>>)
    @@
    (("(None, 2)0af7ba66f9a27ed0e229221aada0cc88d5d6fd58f46f72eb626bd37b8e94efc8140fc148a380d69b8753d296355d450a4c606dfa652482747ab694cd6ac23972140fc148a380d69b8753d296355d450a4c606dfa652482747ab694cd6ac23972"
        :> <<13, 0, 1, 10, 13, 6, 11, 8, 5, 14, 13, 6, 7, 1, 10, 15, 8, 10, 14, 10, 10, 8, 15, 8, 15, 1, 0, 0, 8, 13, 13, 11, 9, 14, 0, 0, 13, 2, 13, 9, 5, 8, 14, 10, 12, 14, 5, 13, 5, 1, 1, 2, 14, 15, 3, 2, 2, 9, 7, 4, 5, 3, 9, 10>>)
    @@
    ("(None, 2)0af7ba66f9a27ed0e229221aada0cc88d5d6fd58f46f72eb626bd37b8e94efc8140fc148a380d69b8753d296355d450a4c606dfa652482747ab694cd6ac239727d3c95f98bd2b66af7c1d3a16cad13e01562539e02afc9695b86a5416092645f"
        :> <<8, 2, 5, 6, 13, 1, 7, 12, 4, 14, 15, 13, 6, 0, 8, 9, 12, 6, 14, 14, 4, 9, 11, 13, 10, 11, 15, 13, 5, 9, 10, 9, 0, 5, 13, 9, 3, 13, 8, 11, 15, 0, 9, 8, 14, 10, 0, 10, 13, 4, 14, 0, 5, 5, 14, 13, 4, 8, 15, 5, 6, 4, 3, 7>>)))
    @@
    ((("(None, 2)0af7ba66f9a27ed0e229221aada0cc88d5d6fd58f46f72eb626bd37b8e94efc87d3c95f98bd2b66af7c1d3a16cad13e01562539e02afc9695b86a5416092645f"
        :> <<11, 10, 6, 14, 5, 7, 1, 9, 3, 6, 4, 11, 0, 13, 5, 3, 0, 7, 6, 13, 9, 14, 9, 6, 3, 1, 12, 12, 3, 0, 7, 11, 12, 3, 11, 7, 7, 11, 11, 8, 11, 2, 14, 15, 12, 15, 12, 12, 9, 13, 14, 11, 4, 10, 2, 5, 6, 0, 14, 13, 7, 10, 8, 4>>)
    @@
    ("(None, 2)0af7ba66f9a27ed0e229221aada0cc88d5d6fd58f46f72eb626bd37b8e94efc87d3c95f98bd2b66af7c1d3a16cad13e01562539e02afc9695b86a5416092645f0af7ba66f9a27ed0e229221aada0cc88d5d6fd58f46f72eb626bd37b8e94efc8"
        :> <<11, 2, 3, 12, 1, 2, 11, 7, 1, 6, 1, 1, 1, 0, 11, 13, 14, 7, 3, 9, 10, 4, 8, 11, 13, 1, 5, 10, 4, 1, 14, 3, 13, 14, 4, 15, 8, 7, 5, 12, 13, 7, 8, 2, 15, 11, 3, 5, 3, 15, 1, 12, 11, 1, 2, 3, 9, 15, 13, 7, 12, 15, 6, 4>>))
    @@
    (("(None, 2)0af7ba66f9a27ed0e229221aada0cc88d5d6fd58f46f72eb626bd37b8e94efc87d3c95f98bd2b66af7c1d3a16cad13e01562539e02afc9695b86a5416092645f0f953d12a939fe4ef354fff77564841627136a6bf3667b256c4a5cb6768788da"
        :> <<14, 6, 10, 2, 11, 5, 0, 14, 3, 2, 10, 7, 9, 12, 13, 6, 7, 3, 11, 0, 10, 7, 7, 11, 15, 15, 9, 12, 0, 12, 0, 2, 10, 7, 0, 1, 5, 5, 7, 2, 15, 6, 3, 0, 12, 3, 1, 7, 2, 4, 15, 0, 11, 5, 12, 11, 3, 1, 15, 6, 6, 10, 6, 10>>)
    @@
    ("(None, 2)0af7ba66f9a27ed0e229221aada0cc88d5d6fd58f46f72eb626bd37b8e94efc87d3c95f98bd2b66af7c1d3a16cad13e01562539e02afc9695b86a5416092645f140fc148a380d69b8753d296355d450a4c606dfa652482747ab694cd6ac23972"
        :> <<2, 8, 4, 13, 6, 13, 4, 8, 12, 6, 15, 2, 0, 2, 13, 1, 3, 10, 10, 8, 5, 9, 13, 6, 11, 4, 3, 3, 1, 9, 15, 4, 13, 11, 5, 11, 11, 2, 1, 10, 5, 13, 12, 3, 0, 13, 14, 15, 10, 12, 0, 0, 0, 3, 0, 0, 6, 9, 1, 15, 2, 0, 3, 2>>)))))))
    @@
    (((((("(None, 2)0af7ba66f9a27ed0e229221aada0cc88d5d6fd58f46f72eb626bd37b8e94efc87d3c95f98bd2b66af7c1d3a16cad13e01562539e02afc9695b86a5416092645f7d3c95f98bd2b66af7c1d3a16cad13e01562539e02afc9695b86a5416092645f"
        :> <<15, 2, 0, 2, 12, 0, 6, 4, 15, 4, 11, 8, 8, 1, 4, 12, 7, 2, 2, 8, 8, 3, 12, 5, 15, 15, 8, 4, 13, 8, 11, 14, 13, 9, 5, 8, 0, 13, 15, 4, 12, 9, 15, 10, 0, 14, 0, 12, 9, 8, 11, 3, 10, 9, 13, 15, 9, 13, 10, 11, 10, 2, 1, 7>>)
    @@
    (("(None, 2)0f953d12a939fe4ef354fff77564841627136a6bf3667b256c4a5cb6768788da"
        :> <<14, 5, 14, 4, 2, 10, 8, 3, 6, 8, 5, 5, 1, 12, 1, 4, 6, 3, 4, 12, 7, 9, 8, 8, 14, 4, 5, 1, 5, 9, 2, 9, 15, 15, 9, 3, 11, 2, 4, 10, 10, 3, 9, 7, 15, 9, 9, 13, 10, 14, 8, 15, 6, 1, 14, 6, 8, 5, 15, 14, 5, 13, 8, 11>>)
    @@
    ("(None, 2)0f953d12a939fe4ef354fff77564841627136a6bf3667b256c4a5cb6768788da0af7ba66f9a27ed0e229221aada0cc88d5d6fd58f46f72eb626bd37b8e94efc8"
        :> <<9, 14, 2, 13, 8, 9, 8, 1, 2, 15, 0, 11, 9, 13, 2, 6, 8, 13, 4, 4, 13, 6, 10, 7, 9, 13, 4, 6, 7, 12, 0, 2, 12, 10, 3, 8, 13, 1, 2, 3, 14, 5, 10, 12, 14, 8, 15, 11, 8, 9, 15, 15, 1, 10, 8, 11, 5, 12, 15, 8, 15, 8, 8, 10>>)))
    @@
    (("(None, 2)0f953d12a939fe4ef354fff77564841627136a6bf3667b256c4a5cb6768788da0af7ba66f9a27ed0e229221aada0cc88d5d6fd58f46f72eb626bd37b8e94efc80af7ba66f9a27ed0e229221aada0cc88d5d6fd58f46f72eb626bd37b8e94efc8"
        :> <<5, 10, 14, 6, 5, 13, 9, 9, 3, 10, 9, 6, 5, 8, 0, 0, 6, 3, 6, 10, 7, 15, 12, 1, 10, 3, 0, 0, 6, 12, 11, 6, 12, 4, 10, 10, 9, 2, 5, 6, 10, 15, 6, 0, 15, 11, 9, 10, 11, 0, 2, 10, 8, 8, 12, 14, 12, 11, 1, 9, 9, 7, 2, 1>>)
    @@
    (("(None, 2)0f953d12a939fe4ef354fff77564841627136a6bf3667b256c4a5cb6768788da0af7ba66f9a27ed0e229221aada0cc88d5d6fd58f46f72eb626bd37b8e94efc80f953d12a939fe4ef354fff77564841627136a6bf3667b256c4a5cb6768788da"
        :> <<6, 5, 9, 8, 5, 15, 0, 3, 4, 14, 11, 6, 1, 10, 2, 8, 3, 14, 1, 8, 15, 3, 12, 8, 9, 10, 15, 4, 4, 4, 1, 7, 11, 11, 1, 8, 12, 11, 15, 14, 14, 4, 5, 14, 7, 2, 6, 8, 0, 15, 2, 4, 7, 10, 14, 2, 15, 4, 1, 3, 12, 2, 6, 9>>)
    @@
    ("(None, 2)0f953d12a939fe4ef354fff77564841627136a6bf3667b256c4a5cb6768788da0af7ba66f9a27ed0e229221aada0cc88d5d6fd58f46f72eb626bd37b8e94efc8140fc148a380d69b8753d296355d450a4c606dfa652482747ab694cd6ac23972"
        :> <<12, 7, 6, 13, 0, 11, 13, 7, 11, 4, 5, 5, 10, 7, 3, 11, 11, 13, 10, 11, 13, 1, 7, 15, 8, 8, 6, 8, 0, 6, 4, 7, 8, 9, 9, 0, 5, 7, 13, 8, 7, 14, 7, 4, 2, 10, 10, 9, 12, 6, 10, 6, 0, 15, 15, 14, 4, 7, 9, 11, 12, 4, 9, 11>>))))
    @@
    ((("(None, 2)0f953d12a939fe4ef354fff77564841627136a6bf3667b256c4a5cb6768788da0af7ba66f9a27ed0e229221aada0cc88d5d6fd58f46f72eb626bd37b8e94efc87d3c95f98bd2b66af7c1d3a16cad13e01562539e02afc9695b86a5416092645f"
        :> <<10, 8, 12, 13, 14, 6, 15, 10, 8, 9, 6, 0, 15, 13, 3, 12, 9, 5, 7, 11, 5, 9, 6, 4, 5, 6, 5, 10, 0, 12, 1, 4, 6, 13, 0, 2, 10, 10, 1, 5, 3, 15, 5, 3, 4, 9, 12, 9, 2, 9, 3, 8, 13, 9, 8, 7, 10, 15, 9, 4, 6, 14, 2, 0>>)
    @@
    (("(None, 2)0f953d12a939fe4ef354fff77564841627136a6bf3667b256c4a5cb6768788da0f953d12a939fe4ef354fff77564841627136a6bf3667b256c4a5cb6768788da"
        :> <<2, 8, 15, 6, 14, 7, 9, 6, 11, 7, 5, 13, 0, 14, 14, 14, 4, 7, 4, 5, 13, 11, 8, 1, 11, 12, 3, 1, 8, 11, 1, 11, 9, 7, 12, 5, 4, 9, 5, 11, 14, 12, 7, 12, 0, 11, 9, 12, 0, 0, 12, 0, 0, 2, 4, 15, 4, 5, 14, 11, 4, 12, 13, 6>>)
    @@
    ("(None, 2)0f953d12a939fe4ef354fff77564841627136a6bf3667b256c4a5cb6768788da0f953d12a939fe4ef354fff77564841627136a6bf3667b256c4a5cb6768788da0af7ba66f9a27ed0e229221aada0cc88d5d6fd58f46f72eb626bd37b8e94efc8"
        :> <<7, 3, 2, 5, 14, 2, 3, 4, 10, 6, 15, 8, 6, 14, 12, 13, 14, 14, 10, 13, 8, 0, 3, 1, 8, 3, 14, 2, 4, 10, 5, 8, 0, 9, 7, 5, 13, 7, 12, 3, 1, 13, 3, 5, 12, 15, 14, 3, 8, 13, 7, 6, 8, 0, 13, 8, 0, 1, 1, 4, 14, 5, 2, 3>>)))
    @@
    ((("(None, 2)0f953d12a939fe4ef354fff77564841627136a6bf3667b256c4a5cb6768788da0f953d12a939fe4ef354fff77564841627136a6bf3667b256c4a5cb6768788da0f953d12a939fe4ef354fff77564841627136a6bf3667b256c4a5cb6768788da"
        :> <<6, 6, 9, 14, 0, 14, 11, 3, 9, 1, 9, 8, 8, 11, 7, 0, 1, 12, 9, 11, 0, 13, 5, 14, 8, 14, 3, 7, 3, 4, 8, 5, 0, 5, 12, 3, 11, 0, 7, 4, 6, 13, 5, 9, 3, 5, 11, 15, 12, 11, 5, 6, 0, 1, 5, 3, 8, 12, 6, 10, 12, 4, 6, 9>>)
    @@
    ("(None, 2)0f953d12a939fe4ef354fff77564841627136a6bf3667b256c4a5cb6768788da0f953d12a939fe4ef354fff77564841627136a6bf3667b256c4a5cb6768788da140fc148a380d69b8753d296355d450a4c606dfa652482747ab694cd6ac23972"
        :> <<3, 11, 8, 11, 10, 10, 1, 7, 10, 14, 1, 5, 11, 7, 1, 7, 2, 4, 15, 9, 7, 10, 2, 15, 4, 10, 15, 5, 11, 8, 3, 12, 2, 1, 1, 4, 2, 11, 5, 7, 14, 8, 8, 9, 13, 10, 9, 2, 15, 15, 14, 9, 7, 2, 2, 11, 13, 9, 7, 12, 13, 2, 3, 7>>))
    @@
    (("(None, 2)0f953d12a939fe4ef354fff77564841627136a6bf3667b256c4a5cb6768788da0f953d12a939fe4ef354fff77564841627136a6bf3667b256c4a5cb6768788da7d3c95f98bd2b66af7c1d3a16cad13e01562539e02afc9695b86a5416092645f"
        :> <<12, 4, 14, 1, 8, 8, 2, 11, 2, 13, 8, 14, 5, 11, 13, 3, 9, 12, 8, 9, 12, 0, 4, 12, 7, 4, 9, 3, 3, 15, 7, 12, 14, 1, 1, 5, 5, 15, 10, 7, 7, 2, 8, 9, 4, 7, 2, 8, 8, 3, 6, 10, 11, 0, 8, 7, 15, 13, 3, 6, 5, 8, 15, 9>>)
    @@
    ("(None, 2)0f953d12a939fe4ef354fff77564841627136a6bf3667b256c4a5cb6768788da140fc148a380d69b8753d296355d450a4c606dfa652482747ab694cd6ac23972"
        :> <<15, 1, 0, 7, 10, 5, 6, 14, 5, 0, 4, 6, 15, 7, 1, 2, 6, 6, 3, 12, 13, 11, 1, 13, 11, 3, 1, 4, 0, 9, 8, 13, 10, 12, 4, 6, 5, 13, 12, 13, 12, 0, 7, 11, 10, 1, 10, 5, 10, 7, 14, 0, 8, 6, 1, 1, 10, 2, 1, 4, 12, 3, 4, 11>>)))))
    @@
    (((("(None, 2)0f953d12a939fe4ef354fff77564841627136a6bf3667b256c4a5cb6768788da140fc148a380d69b8753d296355d450a4c606dfa652482747ab694cd6ac239720af7ba66f9a27ed0e229221aada0cc88d5d6fd58f46f72eb626bd37b8e94efc8"
        :> <<2, 6, 6, 8, 4, 1, 10, 11, 13, 13, 2, 3, 12, 4, 15, 5, 13, 8, 12, 9, 2, 4, 3, 9, 0, 14, 12, 7, 14, 5, 11, 14, 14, 0, 14, 5, 2, 4, 1, 3, 13, 5, 14, 12, 3, 7, 1, 13, 15, 4, 11, 1, 9, 3, 14, 11, 13, 7, 1, 14, 9, 10, 7, 0>>)
    @@
    (("(None, 2)0f953d12a939fe4ef354fff77564841627136a6bf3667b256c4a5cb6768788da140fc148a380d69b8753d296355d450a4c606dfa652482747ab694cd6ac239720f953d12a939fe4ef354fff77564841627136a6bf3667b256c4a5cb6768788da"
        :> <<9, 14, 6, 7, 2, 1, 2, 10, 3, 6, 15, 0, 13, 15, 3, 1, 5, 0, 8, 0, 15, 3, 12, 12, 13, 14, 14, 8, 13, 3, 12, 1, 6, 9, 6, 15, 10, 13, 4, 3, 15, 7, 13, 11, 2, 4, 14, 11, 2, 15, 1, 1, 3, 5, 7, 0, 12, 11, 11, 10, 1, 0, 7, 4>>)
    @@
    ("(None, 2)0f953d12a939fe4ef354fff77564841627136a6bf3667b256c4a5cb6768788da140fc148a380d69b8753d296355d450a4c606dfa652482747ab694cd6ac23972140fc148a380d69b8753d296355d450a4c606dfa652482747ab694cd6ac23972"
        :> <<6, 6, 6, 10, 8, 8, 1, 2, 4, 15, 14, 5, 12, 4, 9, 6, 10, 11, 1, 9, 2, 3, 8, 5, 11, 6, 13, 14, 8, 8, 4, 7, 1, 1, 12, 3, 12, 14, 5, 11, 3, 9, 11, 3, 6, 7, 13, 15, 5, 3, 4, 0, 13, 3, 6, 5, 5, 3, 11, 0, 5, 5, 15, 11>>)))
    @@
    (("(None, 2)0f953d12a939fe4ef354fff77564841627136a6bf3667b256c4a5cb6768788da140fc148a380d69b8753d296355d450a4c606dfa652482747ab694cd6ac239727d3c95f98bd2b66af7c1d3a16cad13e01562539e02afc9695b86a5416092645f"
        :> <<4, 4, 7, 11, 7, 14, 12, 6, 0, 8, 3, 11, 12, 3, 9, 8, 9, 1, 2, 14, 0, 4, 9, 6, 2, 15, 8, 14, 10, 0, 2, 7, 13, 6, 6, 10, 13, 11, 0, 12, 13, 15, 3, 6, 0, 3, 9, 5, 8, 8, 14, 6, 2, 15, 10, 4, 10, 3, 7, 6, 4, 12, 11, 10>>)
    @@
    (("(None, 2)0f953d12a939fe4ef354fff77564841627136a6bf3667b256c4a5cb6768788da7d3c95f98bd2b66af7c1d3a16cad13e01562539e02afc9695b86a5416092645f"
        :> <<4, 13, 14, 9, 15, 14, 2, 12, 0, 3, 10, 8, 11, 11, 0, 2, 6, 0, 2, 6, 4, 7, 5, 13, 8, 15, 12, 14, 7, 14, 5, 9, 7, 13, 5, 3, 7, 7, 4, 13, 15, 8, 9, 0, 2, 13, 14, 12, 6, 13, 6, 5, 4, 13, 14, 6, 10, 3, 13, 1, 4, 10, 7, 10>>)
    @@
    ("(None, 2)0f953d12a939fe4ef354fff77564841627136a6bf3667b256c4a5cb6768788da7d3c95f98bd2b66af7c1d3a16cad13e01562539e02afc9695b86a5416092645f0af7ba66f9a27ed0e229221aada0cc88d5d6fd58f46f72eb626bd37b8e94efc8"
        :> <<11, 1, 5, 13, 14, 13, 14, 1, 11, 0, 11, 9, 13, 15, 10, 7, 1, 4, 15, 6, 4, 4, 9, 0, 14, 6, 14, 9, 8, 7, 1, 13, 4, 6, 8, 0, 4, 4, 0, 10, 11, 13, 14, 9, 6, 8, 2, 1, 12, 12, 13, 5, 3, 8, 13, 14, 14, 1, 8, 6, 11, 9, 15, 4>>))))
    @@
    ((("(None, 2)0f953d12a939fe4ef354fff77564841627136a6bf3667b256c4a5cb6768788da7d3c95f98bd2b66af7c1d3a16cad13e01562539e02afc9695b86a5416092645f0f953d12a939fe4ef354fff77564841627136a6bf3667b256c4a5cb6768788da"
        :> <<1, 2, 15, 14, 11, 13, 0, 13, 2, 5, 13, 8, 9, 1, 4, 11, 11, 3, 7, 5, 4, 6, 6, 5, 3, 4, 5, 15, 8, 7, 2, 13, 6, 0, 6, 4, 14, 12, 3, 12, 9, 4, 1, 14, 4, 7, 14, 1, 9, 9, 12, 10, 6, 10, 6, 8, 5, 10, 15, 5, 2, 3, 4, 11>>)
    @@
    (("(None, 2)0f953d12a939fe4ef354fff77564841627136a6bf3667b256c4a5cb6768788da7d3c95f98bd2b66af7c1d3a16cad13e01562539e02afc9695b86a5416092645f140fc148a380d69b8753d296355d450a4c606dfa652482747ab694cd6ac23972"
        :> <<5, 0, 10, 15, 5, 10, 2, 7, 0, 3, 7, 1, 4, 15, 13, 11, 7, 11, 10, 1, 15, 8, 12, 12, 0, 5, 5, 9, 13, 15, 14, 8, 15, 9, 9, 6, 9, 1, 14, 10, 7, 14, 11, 4, 1, 10, 15, 15, 7, 3, 7, 4, 10, 10, 13, 15, 3, 9, 0, 0, 0, 0, 8, 10>>)
    @@
    ("(None, 2)0f953d12a939fe4ef354fff77564841627136a6bf3667b256c4a5cb6768788da7d3c95f98bd2b66af7c1d3a16cad13e01562539e02afc9695b86a5416092645f7d3c95f98bd2b66af7c1d3a16cad13e01562539e02afc9695b86a5416092645f"
        :> <<12, 9, 2, 3, 9, 3, 9, 6, 13, 13, 6, 1, 14, 13, 10, 9, 6, 4, 14, 6, 7, 10, 3, 3, 13, 10, 13, 1, 12, 8, 2, 14, 3, 12, 3, 12, 6, 10, 0, 13, 8, 15, 3, 0, 15, 14, 3, 13, 14, 9, 15, 14, 1, 4, 6, 14, 8, 3, 6, 8, 12, 9, 2, 11>>)))
    @@
    ((("(None, 2)140fc148a380d69b8753d296355d450a4c606dfa652482747ab694cd6ac23972"
        :> <<11, 1, 7, 12, 7, 3, 11, 2, 2, 6, 15, 12, 7, 14, 10, 15, 1, 10, 15, 1, 15, 9, 2, 2, 13, 4, 3, 3, 3, 15, 0, 12, 8, 10, 13, 13, 1, 6, 5, 6, 7, 14, 6, 0, 5, 9, 5, 1, 4, 14, 5, 13, 1, 8, 4, 15, 5, 10, 11, 9, 5, 2, 13, 8>>)
    @@
    ("(None, 2)140fc148a380d69b8753d296355d450a4c606dfa652482747ab694cd6ac239720af7ba66f9a27ed0e229221aada0cc88d5d6fd58f46f72eb626bd37b8e94efc8"
        :> <<6, 15, 1, 8, 10, 14, 12, 11, 15, 5, 11, 1, 9, 11, 2, 13, 5, 11, 1, 12, 6, 5, 15, 12, 8, 10, 4, 4, 6, 13, 5, 12, 4, 6, 11, 0, 9, 4, 13, 15, 14, 7, 6, 7, 11, 15, 2, 15, 14, 11, 8, 6, 14, 0, 8, 3, 12, 3, 9, 8, 5, 12, 15, 4>>))
    @@
    (("(None, 2)140fc148a380d69b8753d296355d450a4c606dfa652482747ab694cd6ac239720af7ba66f9a27ed0e229221aada0cc88d5d6fd58f46f72eb626bd37b8e94efc80af7ba66f9a27ed0e229221aada0cc88d5d6fd58f46f72eb626bd37b8e94efc8"
        :> <<5, 14, 14, 9, 7, 0, 7, 6, 13, 10, 4, 2, 0, 13, 14, 2, 5, 6, 9, 6, 15, 10, 5, 5, 12, 1, 12, 4, 10, 11, 1, 4, 10, 13, 6, 12, 11, 4, 14, 1, 15, 9, 6, 3, 5, 7, 0, 2, 12, 7, 12, 10, 3, 11, 15, 6, 11, 5, 0, 15, 13, 13, 10, 9>>)
    @@
    ("(None, 2)140fc148a380d69b8753d296355d450a4c606dfa652482747ab694cd6ac239720af7ba66f9a27ed0e229221aada0cc88d5d6fd58f46f72eb626bd37b8e94efc80f953d12a939fe4ef354fff77564841627136a6bf3667b256c4a5cb6768788da"
        :> <<12, 6, 10, 5, 12, 4, 14, 15, 9, 14, 6, 11, 3, 8, 13, 10, 1, 0, 9, 7, 4, 6, 3, 12, 14, 10, 7, 7, 6, 7, 0, 9, 7, 6, 2, 5, 15, 7, 11, 8, 3, 3, 11, 0, 10, 5, 12, 10, 11, 5, 4, 8, 15, 14, 0, 13, 13, 11, 15, 6, 5, 15, 5, 9>>))))))
    @@
    ((((("(None, 2)140fc148a380d69b8753d296355d450a4c606dfa652482747ab694cd6ac239720af7ba66f9a27ed0e229221aada0cc88d5d6fd58f46f72eb626bd37b8e94efc8140fc148a380d69b8753d296355d450a4c606dfa652482747ab694cd6ac23972"
        :> <<3, 6, 8, 7, 1, 2, 3, 10, 10, 4, 0, 9, 5, 15, 6, 7, 8, 4, 9, 10, 13, 12, 0, 12, 8, 6, 4, 8, 4, 14, 0, 1, 12, 7, 10, 1, 6, 12, 15, 13, 6, 14, 6, 1, 15, 12, 4, 12, 12, 10, 9, 13, 8, 7, 7, 12, 5, 8, 1, 8, 15, 13, 4, 10>>)
    @@
    (("(None, 2)140fc148a380d69b8753d296355d450a4c606dfa652482747ab694cd6ac239720af7ba66f9a27ed0e229221aada0cc88d5d6fd58f46f72eb626bd37b8e94efc87d3c95f98bd2b66af7c1d3a16cad13e01562539e02afc9695b86a5416092645f"
        :> <<0, 8, 5, 8, 7, 9, 14, 11, 12, 1, 13, 2, 1, 11, 5, 3, 5, 7, 3, 7, 0, 11, 0, 7, 4, 3, 13, 5, 14, 11, 2, 2, 15, 5, 4, 4, 2, 2, 8, 14, 8, 14, 0, 2, 8, 10, 14, 8, 13, 6, 13, 11, 3, 11, 6, 12, 12, 13, 6, 8, 1, 13, 2, 6>>)
    @@
    ("(None, 2)140fc148a380d69b8753d296355d450a4c606dfa652482747ab694cd6ac239720f953d12a939fe4ef354fff77564841627136a6bf3667b256c4a5cb6768788da"
        :> <<3, 5, 11, 10, 9, 13, 15, 4, 4, 5, 9, 0, 10, 2, 15, 3, 11, 1, 12, 0, 0, 10, 8, 1, 9, 0, 11, 14, 10, 5, 8, 9, 2, 9, 11, 0, 7, 0, 11, 9, 15, 7, 14, 8, 12, 3, 8, 10, 5, 0, 5, 3, 12, 5, 12, 5, 9, 13, 7, 9, 6, 4, 8, 4>>)))
    @@
    (("(None, 2)140fc148a380d69b8753d296355d450a4c606dfa652482747ab694cd6ac239720f953d12a939fe4ef354fff77564841627136a6bf3667b256c4a5cb6768788da0af7ba66f9a27ed0e229221aada0cc88d5d6fd58f46f72eb626bd37b8e94efc8"
        :> <<2, 10, 6, 11, 8, 10, 3, 2, 12, 14, 4, 14, 8, 2, 2, 9, 8, 6, 4, 10, 4, 13, 3, 7, 8, 0, 4, 7, 0, 13, 13, 7, 11, 5, 4, 6, 4, 13, 8, 8, 6, 10, 15, 8, 8, 6, 11, 3, 11, 11, 12, 2, 3, 7, 3, 14, 2, 7, 6, 8, 2, 14, 8, 0>>)
    @@
    (("(None, 2)140fc148a380d69b8753d296355d450a4c606dfa652482747ab694cd6ac239720f953d12a939fe4ef354fff77564841627136a6bf3667b256c4a5cb6768788da0f953d12a939fe4ef354fff77564841627136a6bf3667b256c4a5cb6768788da"
        :> <<3, 14, 10, 3, 6, 14, 11, 5, 9, 0, 14, 11, 11, 2, 15, 7, 2, 5, 12, 8, 6, 13, 15, 1, 2, 11, 5, 10, 3, 8, 14, 8, 12, 0, 11, 9, 11, 6, 4, 14, 2, 14, 2, 4, 15, 0, 5, 11, 15, 7, 6, 13, 5, 12, 3, 6, 6, 10, 5, 6, 8, 7, 14, 9>>)
    @@
    ("(None, 2)140fc148a380d69b8753d296355d450a4c606dfa652482747ab694cd6ac239720f953d12a939fe4ef354fff77564841627136a6bf3667b256c4a5cb6768788da140fc148a380d69b8753d296355d450a4c606dfa652482747ab694cd6ac23972"
        :> <<13, 15, 12, 15, 11, 11, 2, 4, 6, 14, 3, 11, 10, 1, 9, 1, 9, 7, 10, 15, 14, 5, 5, 14, 3, 0, 15, 8, 14, 10, 4, 4, 0, 3, 5, 13, 10, 6, 2, 0, 3, 12, 14, 10, 4, 11, 4, 5, 0, 9, 7, 0, 1, 0, 2, 15, 9, 4, 1, 3, 7, 2, 5, 11>>))))
    @@
    ((("(None, 2)140fc148a380d69b8753d296355d450a4c606dfa652482747ab694cd6ac239720f953d12a939fe4ef354fff77564841627136a6bf3667b256c4a5cb6768788da7d3c95f98bd2b66af7c1d3a16cad13e01562539e02afc9695b86a5416092645f"
        :> <<13, 11, 4, 3, 5, 8, 6, 11, 6, 10, 2, 4, 11, 15, 5, 1, 10, 8, 14, 12, 15, 15, 6, 12, 14, 2, 15, 14, 13, 0, 6, 5, 7, 12, 1, 15, 9, 0, 2, 1, 11, 0, 9, 0, 10, 0, 1, 14, 12, 5, 8, 4, 8, 4, 2, 13, 5, 7, 12, 3, 11, 2, 8, 0>>)
    @@
    (("(None, 2)140fc148a380d69b8753d296355d450a4c606dfa652482747ab694cd6ac23972140fc148a380d69b8753d296355d450a4c606dfa652482747ab694cd6ac23972"
        :> <<6, 12, 3, 4, 11, 9, 6, 2, 11, 3, 15, 12, 9, 6, 3, 3, 0, 6, 9, 11, 3, 7, 6, 4, 14, 11, 11, 8, 11, 3, 15, 13, 9, 10, 7, 0, 7, 10, 9, 8, 12, 5, 9, 5, 6, 11, 3, 12, 7, 13, 10, 6, 9, 5, 15, 5, 6, 12, 14, 8, 1, 4, 0, 7>>)
    @@
    ("(None, 2)140fc148a380d69b8753d296355d450a4c606dfa652482747ab694cd6ac23972140fc148a380d69b8753d296355d450a4c606dfa652482747ab694cd6ac239720af7ba66f9a27ed0e229221aada0cc88d5d6fd58f46f72eb626bd37b8e94efc8"
        :> <<13, 14, 11, 6, 7, 6, 11, 13, 5, 15, 12, 11, 4, 12, 0, 1, 7, 1, 7, 1, 6, 4, 2, 13, 2, 9, 6, 5, 3, 8, 9, 10, 13, 2, 12, 8, 1, 2, 4, 6, 6, 4, 14, 12, 7, 2, 0, 12, 0, 11, 11, 1, 0, 8, 14, 2, 14, 7, 11, 2, 13, 5, 10, 1>>)))
    @@
    ((("(None, 2)140fc148a380d69b8753d296355d450a4c606dfa652482747ab694cd6ac23972140fc148a380d69b8753d296355d450a4c606dfa652482747ab694cd6ac239720f953d12a939fe4ef354fff77564841627136a6bf3667b256c4a5cb6768788da"
        :> <<1, 6, 5, 2, 0, 4, 10, 5, 4, 14, 13, 14, 13, 15, 5, 3, 12, 12, 7, 4, 3, 12, 15, 1, 0, 1, 10, 13, 15, 14, 12, 1, 0, 6, 6, 3, 3, 9, 8, 8, 0, 12, 12, 6, 12, 3, 9, 7, 10, 1, 7, 15, 1, 15, 10, 0, 8, 6, 6, 10, 11, 13, 14, 5>>)
    @@
    ("(None, 2)140fc148a380d69b8753d296355d450a4c606dfa652482747ab694cd6ac23972140fc148a380d69b8753d296355d450a4c606dfa652482747ab694cd6ac23972140fc148a380d69b8753d296355d450a4c606dfa652482747ab694cd6ac23972"
        :> <<2, 2, 9, 13, 9, 2, 0, 7, 11, 6, 0, 7, 15, 13, 0, 2, 9, 15, 7, 14, 3, 15, 6, 6, 5, 13, 3, 12, 2, 13, 1, 8, 5, 1, 6, 12, 1, 3, 10, 6, 8, 8, 7, 7, 6, 14, 12, 1, 5, 13, 1, 5, 10, 12, 0, 9, 4, 6, 1, 8, 4, 0, 14, 12>>))
    @@
    (("(None, 2)140fc148a380d69b8753d296355d450a4c606dfa652482747ab694cd6ac23972140fc148a380d69b8753d296355d450a4c606dfa652482747ab694cd6ac239727d3c95f98bd2b66af7c1d3a16cad13e01562539e02afc9695b86a5416092645f"
        :> <<10, 2, 13, 10, 14, 15, 4, 10, 15, 6, 11, 8, 5, 11, 3, 12, 2, 15, 8, 11, 6, 4, 2, 13, 13, 7, 9, 15, 1, 1, 13, 6, 6, 15, 2, 4, 1, 7, 15, 7, 12, 13, 1, 13, 5, 13, 10, 1, 0, 14, 9, 14, 5, 15, 1, 0, 15, 7, 10, 9, 3, 0, 15, 7>>)
    @@
    ("(None, 2)140fc148a380d69b8753d296355d450a4c606dfa652482747ab694cd6ac239727d3c95f98bd2b66af7c1d3a16cad13e01562539e02afc9695b86a5416092645f"
        :> <<3, 0, 13, 5, 11, 14, 2, 12, 5, 8, 4, 10, 9, 13, 5, 14, 10, 12, 9, 12, 2, 1, 11, 1, 6, 9, 1, 0, 11, 10, 8, 8, 11, 8, 10, 5, 8, 6, 5, 11, 4, 7, 4, 0, 8, 14, 14, 3, 7, 8, 4, 8, 5, 11, 3, 7, 0, 7, 9, 8, 12, 2, 3, 12>>)))))
    @@
    (((("(None, 2)140fc148a380d69b8753d296355d450a4c606dfa652482747ab694cd6ac239727d3c95f98bd2b66af7c1d3a16cad13e01562539e02afc9695b86a5416092645f0af7ba66f9a27ed0e229221aada0cc88d5d6fd58f46f72eb626bd37b8e94efc8"
        :> <<1, 9, 15, 15, 1, 11, 5, 6, 8, 6, 7, 8, 3, 14, 2, 7, 0, 6, 8, 6, 9, 13, 4, 14, 4, 1, 1, 5, 2, 7, 4, 6, 13, 2, 12, 13, 10, 2, 6, 1, 15, 15, 0, 1, 1, 14, 12, 9, 3, 5, 14, 3, 3, 2, 12, 15, 5, 5, 6, 13, 2, 3, 4, 9>>)
    @@
    (("(None, 2)140fc148a380d69b8753d296355d450a4c606dfa652482747ab694cd6ac239727d3c95f98bd2b66af7c1d3a16cad13e01562539e02afc9695b86a5416092645f0f953d12a939fe4ef354fff77564841627136a6bf3667b256c4a5cb6768788da"
        :> <<7, 11, 0, 9, 6, 9, 1, 7, 10, 7, 12, 3, 11, 15, 5, 13, 12, 12, 7, 12, 15, 1, 4, 5, 15, 3, 7, 10, 7, 5, 14, 0, 15, 5, 9, 15, 9, 15, 9, 7, 6, 5, 15, 10, 15, 14, 8, 3, 3, 7, 2, 1, 13, 4, 12, 8, 8, 1, 14, 15, 3, 4, 5, 8>>)
    @@
    ("(None, 2)140fc148a380d69b8753d296355d450a4c606dfa652482747ab694cd6ac239727d3c95f98bd2b66af7c1d3a16cad13e01562539e02afc9695b86a5416092645f140fc148a380d69b8753d296355d450a4c606dfa652482747ab694cd6ac23972"
        :> <<6, 5, 2, 12, 12, 13, 12, 13, 11, 0, 2, 6, 3, 0, 8, 10, 6, 6, 14, 5, 15, 5, 3, 5, 8, 0, 4, 4, 2, 9, 2, 12, 2, 12, 5, 2, 14, 9, 12, 14, 1, 14, 2, 14, 5, 4, 2, 14, 15, 12, 4, 3, 3, 4, 9, 9, 15, 5, 2, 9, 7, 15, 10, 6>>)))
    @@
    ((("(None, 2)140fc148a380d69b8753d296355d450a4c606dfa652482747ab694cd6ac239727d3c95f98bd2b66af7c1d3a16cad13e01562539e02afc9695b86a5416092645f7d3c95f98bd2b66af7c1d3a16cad13e01562539e02afc9695b86a5416092645f"
        :> <<6, 5, 3, 15, 4, 13, 2, 14, 13, 2, 15, 14, 11, 15, 1, 10, 4, 11, 5, 5, 5, 13, 3, 6, 1, 15, 7, 3, 5, 1, 8, 15, 15, 15, 12, 11, 15, 12, 2, 11, 12, 8, 8, 7, 3, 12, 0, 11, 5, 6, 1, 5, 8, 5, 11, 4, 8, 7, 8, 3, 11, 8, 13, 2>>)
    @@
    ("(None, 2)7d3c95f98bd2b66af7c1d3a16cad13e01562539e02afc9695b86a5416092645f"
        :> <<5, 6, 9, 0, 4, 5, 3, 14, 13, 13, 3, 2, 1, 2, 11, 10, 5, 10, 2, 13, 13, 2, 1, 9, 1, 10, 8, 1, 14, 15, 0, 3, 6, 3, 3, 3, 8, 13, 14, 1, 7, 7, 10, 5, 15, 5, 15, 2, 10, 0, 2, 2, 11, 4, 0, 11, 8, 7, 2, 13, 2, 14, 4, 10>>))
    @@
    (("(None, 2)7d3c95f98bd2b66af7c1d3a16cad13e01562539e02afc9695b86a5416092645f0af7ba66f9a27ed0e229221aada0cc88d5d6fd58f46f72eb626bd37b8e94efc8"
        :> <<2, 2, 13, 9, 8, 8, 13, 15, 11, 13, 2, 7, 4, 9, 8, 6, 5, 13, 7, 7, 7, 2, 10, 15, 4, 13, 8, 5, 5, 8, 1, 10, 2, 2, 0, 0, 5, 10, 7, 13, 9, 10, 8, 0, 3, 14, 9, 0, 0, 4, 8, 1, 14, 5, 13, 0, 3, 2, 1, 6, 15, 11, 13, 1>>)
    @@
    ("(None, 2)7d3c95f98bd2b66af7c1d3a16cad13e01562539e02afc9695b86a5416092645f0af7ba66f9a27ed0e229221aada0cc88d5d6fd58f46f72eb626bd37b8e94efc80af7ba66f9a27ed0e229221aada0cc88d5d6fd58f46f72eb626bd37b8e94efc8"
        :> <<7, 2, 4, 8, 4, 12, 3, 14, 6, 14, 4, 15, 11, 3, 11, 5, 7, 9, 6, 2, 14, 10, 4, 10, 14, 11, 3, 1, 11, 4, 6, 11, 11, 10, 15, 5, 14, 5, 10, 9, 10, 1, 15, 5, 2, 10, 15, 5, 9, 12, 15, 8, 2, 0, 11, 6, 7, 13, 14, 5, 4, 3, 14, 10>>))))
    @@
    ((("(None, 2)7d3c95f98bd2b66af7c1d3a16cad13e01562539e02afc9695b86a5416092645f0af7ba66f9a27ed0e229221aada0cc88d5d6fd58f46f72eb626bd37b8e94efc80f953d12a939fe4ef354fff77564841627136a6bf3667b256c4a5cb6768788da"
        :> <<13, 12, 8, 9, 14, 8, 15, 7, 13, 14, 10, 7, 11, 7, 0, 6, 15, 6, 5, 0, 9, 7, 4, 4, 6, 4, 3, 15, 7, 2, 5, 2, 6, 9, 7, 3, 10, 9, 0, 6, 11, 1, 13, 14, 9, 4, 9, 5, 3, 13, 2, 11, 11, 8, 12, 2, 15, 15, 15, 0, 11, 4, 1, 9>>)
    @@
    (("(None, 2)7d3c95f98bd2b66af7c1d3a16cad13e01562539e02afc9695b86a5416092645f0af7ba66f9a27ed0e229221aada0cc88d5d6fd58f46f72eb626bd37b8e94efc8140fc148a380d69b8753d296355d450a4c606dfa652482747ab694cd6ac23972"
        :> <<6, 3, 8, 13, 7, 10, 3, 11, 14, 11, 4, 9, 13, 9, 1, 3, 0, 10, 0, 7, 14, 4, 4, 2, 3, 13, 11, 15, 3, 0, 3, 9, 8, 6, 4, 0, 8, 11, 14, 8, 7, 2, 5, 9, 15, 13, 4, 6, 7, 5, 3, 10, 2, 14, 13, 10, 11, 11, 11, 3, 4, 3, 2, 11>>)
    @@
    ("(None, 2)7d3c95f98bd2b66af7c1d3a16cad13e01562539e02afc9695b86a5416092645f0af7ba66f9a27ed0e229221aada0cc88d5d6fd58f46f72eb626bd37b8e94efc87d3c95f98bd2b66af7c1d3a16cad13e01562539e02afc9695b86a5416092645f"
        :> <<1, 11, 9, 9, 9, 10, 2, 14, 4, 2, 15, 14, 10, 2, 4, 15, 15, 0, 15, 2, 11, 6, 10, 8, 12, 13, 15, 14, 11, 13, 1, 0, 1, 0, 3, 12, 6, 1, 7, 2, 11, 12, 6, 8, 13, 1, 14, 13, 9, 10, 7, 5, 8, 15, 5, 8, 10, 4, 11, 15, 12, 11, 15, 0>>)))
    @@
    ((("(None, 2)7d3c95f98bd2b66af7c1d3a16cad13e01562539e02afc9695b86a5416092645f0f953d12a939fe4ef354fff77564841627136a6bf3667b256c4a5cb6768788da"
        :> <<1, 3, 2, 3, 0, 12, 6, 14, 8, 4, 12, 13, 2, 14, 13, 11, 9, 14, 9, 1, 5, 13, 8, 8, 13, 1, 9, 12, 1, 10, 4, 4, 1, 15, 3, 9, 1, 9, 6, 8, 5, 7, 14, 8, 1, 15, 3, 5, 13, 0, 9, 8, 6, 12, 8, 3, 13, 7, 9, 6, 3, 8, 6, 5>>)
    @@
    ("(None, 2)7d3c95f98bd2b66af7c1d3a16cad13e01562539e02afc9695b86a5416092645f0f953d12a939fe4ef354fff77564841627136a6bf3667b256c4a5cb6768788da0af7ba66f9a27ed0e229221aada0cc88d5d6fd58f46f72eb626bd37b8e94efc8"
        :> <<5, 10, 14, 7, 9, 15, 11, 5, 1, 5, 13, 8, 15, 9, 5, 4, 3, 11, 1, 8, 10, 10, 7, 5, 4, 11, 10, 7, 8, 10, 14, 0, 6, 5, 3, 10, 15, 2, 6, 2, 5, 14, 2, 1, 7, 5, 12, 11, 2, 2, 4, 6, 13, 3, 13, 1, 4, 4, 9, 1, 9, 5, 15, 0>>))
    @@
    (("(None, 2)7d3c95f98bd2b66af7c1d3a16cad13e01562539e02afc9695b86a5416092645f0f953d12a939fe4ef354fff77564841627136a6bf3667b256c4a5cb6768788da0f953d12a939fe4ef354fff77564841627136a6bf3667b256c4a5cb6768788da"
        :> <<5, 8, 14, 5, 10, 7, 0, 13, 8, 15, 4, 5, 14, 10, 12, 8, 5, 1, 11, 9, 2, 10, 7, 15, 0, 15, 14, 13, 13, 3, 8, 2, 6, 0, 5, 10, 5, 10, 6, 9, 3, 11, 14, 6, 0, 9, 14, 3, 6, 1, 11, 9, 6, 13, 8, 6, 2, 1, 12, 14, 1, 15, 4, 5>>)
    @@
    ("(None, 2)7d3c95f98bd2b66af7c1d3a16cad13e01562539e02afc9695b86a5416092645f0f953d12a939fe4ef354fff77564841627136a6bf3667b256c4a5cb6768788da140fc148a380d69b8753d296355d450a4c606dfa652482747ab694cd6ac23972"
        :> <<7, 1, 2, 1, 3, 4, 11, 4, 8, 0, 13, 11, 5, 10, 1, 15, 0, 10, 10, 2, 7, 9, 7, 3, 8, 6, 0, 2, 9, 12, 5, 11, 10, 1, 11, 12, 13, 3, 0, 4, 6, 12, 7, 10, 11, 14, 9, 1, 0, 12, 15, 9, 10, 4, 11, 2, 6, 9, 4, 8, 5, 5, 2, 6>>)))))))))
    @@
    (((((((("(None, 2)7d3c95f98bd2b66af7c1d3a16cad13e01562539e02afc9695b86a5416092645f0f953d12a939fe4ef354fff77564841627136a6bf3667b256c4a5cb6768788da7d3c95f98bd2b66af7c1d3a16cad13e01562539e02afc9695b86a5416092645f"
        :> <<9, 13, 6, 10, 4, 1, 7, 7, 5, 4, 13, 5, 1, 5, 6, 6, 11, 7, 8, 12, 5, 14, 9, 5, 9, 14, 11, 1, 14, 10, 11, 6, 5, 2, 13, 14, 9, 10, 10, 4, 9, 10, 6, 13, 13, 8, 0, 6, 1, 2, 5, 11, 11, 11, 5, 10, 12, 6, 4, 0, 13, 4, 14, 4>>)
    @@
    (("(None, 2)7d3c95f98bd2b66af7c1d3a16cad13e01562539e02afc9695b86a5416092645f140fc148a380d69b8753d296355d450a4c606dfa652482747ab694cd6ac23972"
        :> <<9, 0, 8, 1, 4, 3, 7, 3, 15, 10, 10, 2, 9, 1, 9, 2, 11, 3, 4, 11, 12, 10, 12, 7, 2, 9, 3, 15, 6, 14, 9, 8, 2, 0, 7, 13, 6, 15, 9, 10, 8, 2, 14, 11, 5, 12, 10, 5, 2, 9, 6, 10, 2, 11, 0, 9, 14, 10, 14, 0, 1, 6, 6, 14>>)
    @@
    ("(None, 2)7d3c95f98bd2b66af7c1d3a16cad13e01562539e02afc9695b86a5416092645f140fc148a380d69b8753d296355d450a4c606dfa652482747ab694cd6ac239720af7ba66f9a27ed0e229221aada0cc88d5d6fd58f46f72eb626bd37b8e94efc8"
        :> <<6, 7, 2, 14, 5, 14, 8, 10, 13, 10, 14, 9, 10, 13, 13, 2, 7, 12, 9, 7, 15, 5, 0, 11, 5, 1, 8, 0, 3, 2, 9, 6, 3, 8, 9, 13, 13, 14, 9, 11, 1, 3, 3, 9, 5, 3, 5, 5, 10, 8, 1, 5, 12, 12, 7, 2, 8, 8, 14, 14, 14, 14, 1, 0>>)))
    @@
    (("(None, 2)7d3c95f98bd2b66af7c1d3a16cad13e01562539e02afc9695b86a5416092645f140fc148a380d69b8753d296355d450a4c606dfa652482747ab694cd6ac239720f953d12a939fe4ef354fff77564841627136a6bf3667b256c4a5cb6768788da"
        :> <<6, 0, 7, 8, 15, 8, 7, 3, 13, 14, 0, 9, 10, 11, 9, 13, 8, 15, 6, 6, 0, 4, 7, 14, 9, 4, 8, 4, 12, 8, 11, 6, 5, 6, 14, 10, 1, 1, 0, 7, 10, 7, 4, 6, 7, 11, 2, 3, 0, 14, 14, 2, 13, 0, 10, 7, 4, 7, 3, 1, 8, 10, 11, 12>>)
    @@
    (("(None, 2)7d3c95f98bd2b66af7c1d3a16cad13e01562539e02afc9695b86a5416092645f140fc148a380d69b8753d296355d450a4c606dfa652482747ab694cd6ac23972140fc148a380d69b8753d296355d450a4c606dfa652482747ab694cd6ac23972"
        :> <<2, 5, 11, 1, 9, 3, 7, 5, 11, 10, 3, 12, 12, 8, 5, 8, 4, 2, 8, 2, 11, 7, 6, 1, 11, 11, 9, 2, 3, 5, 11, 2, 13, 1, 2, 0, 8, 7, 2, 2, 8, 11, 2, 7, 9, 12, 13, 0, 13, 14, 8, 2, 2, 12, 13, 5, 8, 1, 7, 7, 13, 9, 2, 11>>)
    @@
    ("(None, 2)7d3c95f98bd2b66af7c1d3a16cad13e01562539e02afc9695b86a5416092645f140fc148a380d69b8753d296355d450a4c606dfa652482747ab694cd6ac239727d3c95f98bd2b66af7c1d3a16cad13e01562539e02afc9695b86a5416092645f"
        :> <<1, 15, 7, 2, 13, 6, 12, 15, 6, 4, 3, 14, 12, 1, 5, 11, 1, 14, 3, 9, 8, 7, 9, 0, 1, 2, 12, 9, 3, 9, 11, 12, 7, 7, 6, 8, 7, 11, 8, 6, 8, 4, 5, 1, 7, 3, 4, 12, 2, 5, 0, 13, 7, 3, 3, 6, 11, 2, 13, 1, 11, 12, 10, 6>>))))
    @@
    ((("(None, 2)7d3c95f98bd2b66af7c1d3a16cad13e01562539e02afc9695b86a5416092645f7d3c95f98bd2b66af7c1d3a16cad13e01562539e02afc9695b86a5416092645f"
        :> <<9, 14, 9, 0, 9, 8, 7, 13, 13, 11, 9, 2, 11, 14, 5, 4, 11, 12, 2, 3, 9, 9, 5, 2, 5, 5, 4, 9, 15, 10, 0, 0, 7, 10, 7, 7, 13, 10, 5, 11, 14, 12, 3, 5, 13, 2, 2, 0, 10, 6, 10, 4, 10, 12, 6, 11, 1, 5, 0, 5, 5, 9, 15, 14>>)
    @@
    (("(None, 2)7d3c95f98bd2b66af7c1d3a16cad13e01562539e02afc9695b86a5416092645f7d3c95f98bd2b66af7c1d3a16cad13e01562539e02afc9695b86a5416092645f0af7ba66f9a27ed0e229221aada0cc88d5d6fd58f46f72eb626bd37b8e94efc8"
        :> <<12, 13, 4, 11, 7, 5, 15, 6, 10, 12, 12, 7, 8, 12, 13, 9, 13, 1, 5, 5, 4, 2, 6, 0, 15, 12, 9, 8, 6, 15, 13, 1, 10, 7, 15, 8, 13, 9, 11, 1, 15, 2, 11, 15, 9, 4, 3, 9, 6, 7, 11, 1, 10, 15, 1, 6, 11, 15, 0, 8, 8, 13, 2, 5>>)
    @@
    ("(None, 2)7d3c95f98bd2b66af7c1d3a16cad13e01562539e02afc9695b86a5416092645f7d3c95f98bd2b66af7c1d3a16cad13e01562539e02afc9695b86a5416092645f0f953d12a939fe4ef354fff77564841627136a6bf3667b256c4a5cb6768788da"
        :> <<15, 14, 14, 11, 4, 12, 12, 1, 2, 6, 13, 6, 13, 12, 4, 0, 5, 6, 4, 6, 3, 2, 14, 7, 3, 2, 4, 3, 12, 15, 7, 14, 5, 4, 7, 9, 8, 7, 9, 12, 15, 15, 7, 1, 7, 10, 9, 13, 14, 7, 2, 5, 15, 14, 4, 7, 15, 1, 14, 4, 15, 4, 10, 0>>)))
    @@
    ((("(None, 2)7d3c95f98bd2b66af7c1d3a16cad13e01562539e02afc9695b86a5416092645f7d3c95f98bd2b66af7c1d3a16cad13e01562539e02afc9695b86a5416092645f140fc148a380d69b8753d296355d450a4c606dfa652482747ab694cd6ac23972"
        :> <<4, 0, 9, 8, 9, 15, 1, 6, 3, 1, 15, 8, 4, 9, 5, 0, 13, 2, 11, 12, 8, 5, 13, 11, 13, 12, 5, 12, 7, 5, 9, 4, 1, 5, 13, 2, 5, 2, 8, 5, 3, 7, 8, 0, 6, 5, 2, 11, 11, 3, 7, 15, 14, 9, 6, 11, 13, 3, 4, 15, 9, 13, 15, 0>>)
    @@
    ("(None, 2)7d3c95f98bd2b66af7c1d3a16cad13e01562539e02afc9695b86a5416092645f7d3c95f98bd2b66af7c1d3a16cad13e01562539e02afc9695b86a5416092645f7d3c95f98bd2b66af7c1d3a16cad13e01562539e02afc9695b86a5416092645f"
        :> <<6, 6, 12, 0, 7, 6, 9, 13, 1, 13, 11, 3, 13, 3, 12, 1, 3, 10, 15, 15, 10, 15, 11, 13, 1, 2, 2, 10, 9, 5, 8, 9, 13, 15, 15, 4, 11, 13, 10, 1, 12, 12, 9, 13, 0, 11, 1, 4, 9, 3, 11, 12, 15, 0, 12, 13, 4, 13, 10, 10, 3, 0, 2, 6>>))
    @@
    (("(None, 3)"
        :> <<0, 0, 1, 5, 6, 1, 12, 15, 14, 12, 11, 7, 6, 7, 13, 11, 6, 6, 11, 2, 4, 7, 9, 15, 7, 10, 14, 8, 13, 4, 5, 9, 2, 14, 15, 11, 6, 0, 2, 8, 15, 8, 3, 13, 15, 5, 8, 6, 5, 5, 5, 14, 1, 0, 7, 7, 8, 10, 7, 7, 11, 13, 13, 14>>)
    @@
    ("(None, 3)0af7ba66f9a27ed0e229221aada0cc88d5d6fd58f46f72eb626bd37b8e94efc8"
        :> <<3, 9, 7, 13, 15, 4, 7, 5, 2, 7, 12, 11, 1, 5, 7, 4, 5, 1, 9, 6, 4, 1, 4, 4, 6, 5, 12, 14, 0, 2, 14, 8, 13, 7, 10, 6, 13, 9, 11, 5, 9, 7, 4, 11, 12, 9, 9, 13, 3, 4, 2, 10, 7, 6, 14, 1, 14, 14, 15, 7, 0, 11, 8, 2>>)))))
    @@
    (((("(None, 3)0af7ba66f9a27ed0e229221aada0cc88d5d6fd58f46f72eb626bd37b8e94efc80af7ba66f9a27ed0e229221aada0cc88d5d6fd58f46f72eb626bd37b8e94efc8"
        :> <<8, 6, 4, 0, 0, 7, 3, 14, 3, 12, 3, 3, 10, 4, 12, 3, 9, 12, 7, 1, 11, 10, 7, 5, 0, 0, 0, 2, 13, 0, 12, 13, 3, 11, 0, 7, 8, 10, 1, 7, 6, 10, 9, 2, 11, 5, 0, 12, 11, 10, 2, 7, 2, 4, 15, 4, 1, 13, 12, 10, 2, 14, 6, 4>>)
    @@
    (("(None, 3)0af7ba66f9a27ed0e229221aada0cc88d5d6fd58f46f72eb626bd37b8e94efc80af7ba66f9a27ed0e229221aada0cc88d5d6fd58f46f72eb626bd37b8e94efc80af7ba66f9a27ed0e229221aada0cc88d5d6fd58f46f72eb626bd37b8e94efc8"
        :> <<3, 4, 6, 5, 6, 2, 7, 2, 5, 0, 13, 14, 1, 14, 15, 6, 10, 4, 8, 12, 2, 12, 8, 0, 4, 3, 7, 4, 2, 5, 10, 1, 9, 0, 7, 8, 13, 0, 3, 11, 3, 15, 12, 6, 5, 6, 12, 4, 7, 15, 7, 9, 0, 0, 1, 12, 4, 4, 2, 13, 3, 1, 15, 12>>)
    @@
    ("(None, 3)0af7ba66f9a27ed0e229221aada0cc88d5d6fd58f46f72eb626bd37b8e94efc80af7ba66f9a27ed0e229221aada0cc88d5d6fd58f46f72eb626bd37b8e94efc80f953d12a939fe4ef354fff77564841627136a6bf3667b256c4a5cb6768788da"
        :> <<15, 12, 8, 7, 5, 14, 15, 1, 11, 3, 4, 8, 8, 13, 6, 9, 13, 7, 2, 5, 3, 5, 7, 3, 1, 1, 8, 3, 11, 0, 10, 9, 15, 2, 5, 8, 10, 3, 11, 3, 1, 14, 2, 13, 8, 0, 6, 3, 1, 15, 12, 5, 9, 3, 13, 8, 0, 14, 2, 5, 7, 9, 5, 4>>)))
    @@
    (("(None, 3)0af7ba66f9a27ed0e229221aada0cc88d5d6fd58f46f72eb626bd37b8e94efc80af7ba66f9a27ed0e229221aada0cc88d5d6fd58f46f72eb626bd37b8e94efc8140fc148a380d69b8753d296355d450a4c606dfa652482747ab694cd6ac23972"
        :> <<5, 2, 9, 6, 5, 0, 2, 6, 4, 12, 13, 2, 8, 1, 2, 4, 4, 6, 0, 9, 8, 9, 7, 4, 9, 13, 5, 9, 2, 4, 2, 12, 15, 7, 15, 6, 12, 9, 0, 2, 5, 15, 11, 7, 11, 4, 4, 5, 6, 1, 5, 8, 7, 9, 10, 9, 0, 9, 3, 1, 0, 14, 6, 0>>)
    @@
    (("(None, 3)0af7ba66f9a27ed0e229221aada0cc88d5d6fd58f46f72eb626bd37b8e94efc80af7ba66f9a27ed0e229221aada0cc88d5d6fd58f46f72eb626bd37b8e94efc87d3c95f98bd2b66af7c1d3a16cad13e01562539e02afc9695b86a5416092645f"
        :> <<15, 2, 6, 9, 1, 4, 0, 3, 4, 6, 13, 11, 8, 2, 11, 11, 9, 9, 14, 6, 6, 8, 13, 15, 12, 4, 8, 2, 14, 4, 9, 13, 6, 10, 8, 11, 15, 11, 12, 4, 15, 14, 2, 7, 13, 0, 13, 8, 3, 10, 15, 12, 15, 6, 12, 4, 8, 12, 10, 15, 12, 11, 4, 14>>)
    @@
    ("(None, 3)0af7ba66f9a27ed0e229221aada0cc88d5d6fd58f46f72eb626bd37b8e94efc80f953d12a939fe4ef354fff77564841627136a6bf3667b256c4a5cb6768788da"
        :> <<12, 0, 1, 14, 10, 5, 0, 13, 13, 15, 3, 8, 14, 2, 5, 1, 11, 9, 3, 0, 10, 6, 10, 7, 13, 4, 9, 13, 4, 13, 4, 8, 15, 15, 15, 1, 2, 2, 15, 2, 2, 11, 3, 8, 15, 11, 11, 0, 2, 6, 12, 15, 0, 0, 2, 5, 8, 14, 3, 0, 15, 13, 1, 3>>))))
    @@
    ((("(None, 3)0af7ba66f9a27ed0e229221aada0cc88d5d6fd58f46f72eb626bd37b8e94efc80f953d12a939fe4ef354fff77564841627136a6bf3667b256c4a5cb6768788da0af7ba66f9a27ed0e229221aada0cc88d5d6fd58f46f72eb626bd37b8e94efc8"
        :> <<2, 11, 3, 4, 14, 13, 7, 13, 3, 7, 8, 10, 4, 2, 14, 13, 5, 2, 11, 7, 15, 10, 14, 4, 2, 5, 12, 13, 6, 11, 7, 11, 15, 10, 8, 15, 10, 15, 15, 2, 12, 3, 2, 7, 12, 1, 13, 15, 0, 11, 11, 8, 7, 13, 9, 15, 15, 3, 1, 7, 5, 15, 13, 15>>)
    @@
    (("(None, 3)0af7ba66f9a27ed0e229221aada0cc88d5d6fd58f46f72eb626bd37b8e94efc80f953d12a939fe4ef354fff77564841627136a6bf3667b256c4a5cb6768788da0f953d12a939fe4ef354fff77564841627136a6bf3667b256c4a5cb6768788da"
        :> <<11, 9, 9, 6, 0, 13, 1, 3, 6, 9, 14, 9, 13, 5, 7, 8, 2, 0, 12, 13, 10, 8, 14, 9, 3, 9, 15, 1, 2, 1, 10, 13, 12, 15, 10, 1, 5, 11, 8, 13, 6, 4, 10, 11, 0, 10, 4, 5, 9, 13, 5, 2, 3, 0, 0, 15, 13, 11, 7, 8, 5, 12, 12, 9>>)
    @@
    ("(None, 3)0af7ba66f9a27ed0e229221aada0cc88d5d6fd58f46f72eb626bd37b8e94efc80f953d12a939fe4ef354fff77564841627136a6bf3667b256c4a5cb6768788da140fc148a380d69b8753d296355d450a4c606dfa652482747ab694cd6ac23972"
        :> <<12, 15, 2, 15, 14, 4, 4, 5, 5, 1, 7, 4, 6, 10, 10, 14, 13, 14, 7, 8, 14, 2, 9, 8, 0, 5, 15, 11, 11, 12, 14, 14, 8, 12, 1, 12, 14, 12, 0, 12, 13, 5, 0, 8, 8, 7, 7, 3, 5, 0, 2, 7, 13, 10, 8, 6, 3, 2, 7, 10, 11, 12, 10, 2>>)))
    @@
    ((("(None, 3)0af7ba66f9a27ed0e229221aada0cc88d5d6fd58f46f72eb626bd37b8e94efc80f953d12a939fe4ef354fff77564841627136a6bf3667b256c4a5cb6768788da7d3c95f98bd2b66af7c1d3a16cad13e01562539e02afc9695b86a5416092645f"
        :> <<7, 6, 13, 3, 4, 9, 0, 14, 13, 12, 14, 15, 8, 0, 7, 6, 14, 2, 1, 12, 15, 15, 9, 5, 6, 5, 14, 15, 10, 10, 2, 15, 4, 0, 15, 12, 1, 9, 9, 12, 10, 7, 2, 8, 7, 9, 15, 2, 7, 10, 14, 1, 8, 2, 1, 11, 7, 10, 4, 7, 8, 8, 4, 8>>)
    @@
    ("(None, 3)0af7ba66f9a27ed0e229221aada0cc88d5d6fd58f46f72eb626bd37b8e94efc8140fc148a380d69b8753d296355d450a4c606dfa652482747ab694cd6ac23972"
        :> <<3, 4, 13, 12, 14, 11, 11, 3, 12, 9, 11, 2, 5, 8, 15, 7, 15, 4, 15, 11, 14, 3, 14, 9, 5, 8, 8, 10, 13, 11, 14, 12, 3, 13, 7, 0, 7, 7, 13, 15, 10, 10, 6, 14, 12, 7, 0, 9, 0, 1, 9, 2, 6, 14, 8, 12, 3, 14, 15, 15, 15, 11, 10, 5>>))
    @@
    (("(None, 3)0af7ba66f9a27ed0e229221aada0cc88d5d6fd58f46f72eb626bd37b8e94efc8140fc148a380d69b8753d296355d450a4c606dfa652482747ab694cd6ac239720af7ba66f9a27ed0e229221aada0cc88d5d6fd58f46f72eb626bd37b8e94efc8"
        :> <<11, 6, 8, 0, 13, 0, 14, 1, 4, 12, 3, 13, 1, 13, 2, 11, 8, 2, 6, 2, 4, 9, 1, 3, 7, 6, 11, 2, 8, 8, 7, 0, 5, 9, 4, 8, 13, 6, 3, 5, 2, 0, 2, 11, 0, 1, 0, 7, 0, 3, 7, 1, 6, 1, 6, 10, 6, 8, 11, 10, 13, 11, 8, 9>>)
    @@
    ("(None, 3)0af7ba66f9a27ed0e229221aada0cc88d5d6fd58f46f72eb626bd37b8e94efc8140fc148a380d69b8753d296355d450a4c606dfa652482747ab694cd6ac239720f953d12a939fe4ef354fff77564841627136a6bf3667b256c4a5cb6768788da"
        :> <<7, 8, 7, 2, 8, 13, 5, 10, 8, 2, 7, 2, 13, 2, 14, 6, 5, 9, 15, 4, 8, 5, 9, 12, 7, 2, 5, 13, 10, 10, 10, 4, 1, 12, 15, 5, 7, 7, 12, 14, 10, 1, 10, 12, 12, 3, 15, 4, 10, 12, 6, 13, 1, 0, 4, 3, 8, 0, 0, 3, 13, 13, 2, 14>>))))))
    @@
    ((((("(None, 3)0af7ba66f9a27ed0e229221aada0cc88d5d6fd58f46f72eb626bd37b8e94efc8140fc148a380d69b8753d296355d450a4c606dfa652482747ab694cd6ac23972140fc148a380d69b8753d296355d450a4c606dfa652482747ab694cd6ac23972"
        :> <<9, 11, 1, 15, 2, 6, 7, 3, 8, 6, 5, 3, 12, 7, 6, 14, 9, 8, 11, 8, 13, 7, 11, 2, 11, 13, 4, 14, 10, 15, 11, 9, 2, 0, 5, 8, 0, 11, 8, 10, 6, 11, 10, 5, 5, 10, 7, 14, 12, 9, 8, 8, 12, 8, 8, 14, 5, 14, 12, 7, 3, 15, 5, 7>>)
    @@
    (("(None, 3)0af7ba66f9a27ed0e229221aada0cc88d5d6fd58f46f72eb626bd37b8e94efc8140fc148a380d69b8753d296355d450a4c606dfa652482747ab694cd6ac239727d3c95f98bd2b66af7c1d3a16cad13e01562539e02afc9695b86a5416092645f"
        :> <<2, 4, 11, 11, 15, 9, 11, 5, 13, 9, 2, 15, 8, 15, 0, 6, 10, 8, 6, 15, 13, 9, 9, 10, 14, 15, 10, 11, 8, 3, 10, 15, 13, 12, 14, 10, 4, 9, 1, 10, 12, 2, 2, 5, 8, 8, 6, 1, 6, 15, 5, 14, 3, 0, 15, 7, 3, 0, 12, 0, 11, 12, 1, 10>>)
    @@
    ("(None, 3)0af7ba66f9a27ed0e229221aada0cc88d5d6fd58f46f72eb626bd37b8e94efc87d3c95f98bd2b66af7c1d3a16cad13e01562539e02afc9695b86a5416092645f"
        :> <<13, 9, 6, 13, 2, 1, 15, 1, 12, 0, 4, 1, 2, 7, 12, 0, 12, 11, 13, 8, 15, 0, 15, 2, 3, 2, 6, 12, 4, 3, 3, 0, 2, 4, 13, 11, 1, 15, 3, 3, 5, 3, 7, 10, 5, 12, 9, 0, 2, 11, 7, 4, 15, 8, 10, 13, 0, 10, 4, 13, 3, 12, 15, 9>>)))
    @@
    (("(None, 3)0af7ba66f9a27ed0e229221aada0cc88d5d6fd58f46f72eb626bd37b8e94efc87d3c95f98bd2b66af7c1d3a16cad13e01562539e02afc9695b86a5416092645f0af7ba66f9a27ed0e229221aada0cc88d5d6fd58f46f72eb626bd37b8e94efc8"
        :> <<6, 14, 9, 2, 9, 0, 5, 13, 7, 5, 3, 12, 8, 6, 0, 7, 11, 10, 0, 13, 15, 13, 5, 3, 3, 14, 15, 4, 1, 1, 9, 4, 8, 12, 1, 3, 0, 2, 12, 11, 11, 7, 12, 1, 12, 3, 14, 1, 12, 15, 0, 12, 0, 2, 15, 5, 7, 13, 13, 6, 10, 12, 14, 14>>)
    @@
    (("(None, 3)0af7ba66f9a27ed0e229221aada0cc88d5d6fd58f46f72eb626bd37b8e94efc87d3c95f98bd2b66af7c1d3a16cad13e01562539e02afc9695b86a5416092645f0f953d12a939fe4ef354fff77564841627136a6bf3667b256c4a5cb6768788da"
        :> <<11, 15, 2, 7, 2, 2, 10, 5, 0, 2, 10, 0, 4, 7, 13, 4, 3, 6, 9, 12, 3, 15, 5, 12, 10, 10, 1, 10, 2, 12, 14, 14, 6, 8, 14, 4, 6, 15, 6, 2, 13, 2, 7, 11, 9, 0, 9, 12, 6, 9, 7, 13, 4, 4, 14, 7, 0, 15, 13, 5, 14, 1, 2, 12>>)
    @@
    ("(None, 3)0af7ba66f9a27ed0e229221aada0cc88d5d6fd58f46f72eb626bd37b8e94efc87d3c95f98bd2b66af7c1d3a16cad13e01562539e02afc9695b86a5416092645f140fc148a380d69b8753d296355d450a4c606dfa652482747ab694cd6ac23972"
        :> <<15, 3, 4, 3, 2, 14, 11, 11, 3, 1, 1, 0, 13, 9, 3, 15, 10, 11, 6, 7, 14, 12, 3, 5, 11, 8, 15, 12, 3, 0, 14, 4, 5, 15, 14, 0, 13, 4, 14, 6, 12, 14, 10, 14, 5, 14, 9, 7, 4, 13, 0, 13, 5, 12, 9, 14, 5, 5, 10, 0, 8, 11, 9, 10>>))))
    @@
    ((("(None, 3)0af7ba66f9a27ed0e229221aada0cc88d5d6fd58f46f72eb626bd37b8e94efc87d3c95f98bd2b66af7c1d3a16cad13e01562539e02afc9695b86a5416092645f7d3c95f98bd2b66af7c1d3a16cad13e01562539e02afc9695b86a5416092645f"
        :> <<4, 6, 12, 0, 7, 3, 11, 10, 10, 6, 3, 12, 12, 15, 14, 13, 4, 1, 15, 11, 14, 5, 13, 0, 10, 0, 2, 5, 7, 4, 1, 3, 10, 3, 8, 15, 6, 1, 12, 5, 12, 15, 13, 0, 14, 6, 1, 6, 11, 4, 14, 15, 1, 13, 1, 3, 11, 7, 13, 10, 10, 11, 14, 3>>)
    @@
    (("(None, 3)0f953d12a939fe4ef354fff77564841627136a6bf3667b256c4a5cb6768788da"
        :> <<1, 7, 13, 14, 9, 4, 0, 6, 1, 11, 13, 10, 14, 5, 10, 11, 11, 13, 12, 12, 4, 0, 9, 14, 12, 12, 2, 0, 12, 13, 7, 7, 14, 2, 12, 0, 5, 1, 4, 1, 7, 6, 13, 11, 8, 9, 0, 0, 7, 6, 13, 13, 11, 1, 1, 4, 0, 2, 15, 4, 14, 7, 1, 2>>)
    @@
    ("(None, 3)0f953d12a939fe4ef354fff77564841627136a6bf3667b256c4a5cb6768788da0af7ba66f9a27ed0e229221aada0cc88d5d6fd58f46f72eb626bd37b8e94efc8"
        :> <<0, 9, 11, 13, 0, 6, 1, 5, 14, 2, 13, 13, 11, 8, 14, 6, 14, 3, 15, 15, 14, 9, 3, 5, 13, 5, 12, 15, 15, 14, 8, 15, 9, 11, 14, 4, 11, 3, 15, 9, 3, 9, 5, 5, 14, 13, 10, 4, 11, 8, 6, 12, 14, 9, 7, 9, 9, 0, 8, 10, 15, 10, 10, 5>>)))
    @@
    ((("(None, 3)0f953d12a939fe4ef354fff77564841627136a6bf3667b256c4a5cb6768788da0af7ba66f9a27ed0e229221aada0cc88d5d6fd58f46f72eb626bd37b8e94efc80af7ba66f9a27ed0e229221aada0cc88d5d6fd58f46f72eb626bd37b8e94efc8"
        :> <<13, 8, 6, 8, 4, 12, 6, 5, 11, 8, 8, 6, 8, 9, 11, 10, 10, 6, 10, 9, 15, 9, 14, 0, 12, 0, 12, 11, 6, 10, 14, 1, 4, 14, 8, 5, 8, 13, 13, 0, 7, 7, 5, 3, 1, 10, 0, 12, 13, 11, 1, 1, 7, 14, 12, 2, 11, 1, 8, 9, 14, 3, 10, 1>>)
    @@
    ("(None, 3)0f953d12a939fe4ef354fff77564841627136a6bf3667b256c4a5cb6768788da0af7ba66f9a27ed0e229221aada0cc88d5d6fd58f46f72eb626bd37b8e94efc80f953d12a939fe4ef354fff77564841627136a6bf3667b256c4a5cb6768788da"
        :> <<15, 1, 5, 12, 5, 6, 0, 0, 14, 9, 10, 4, 0, 12, 8, 7, 12, 7, 8, 1, 11, 8, 10, 8, 8, 13, 11, 7, 10, 8, 14, 15, 15, 2, 0, 10, 5, 8, 9, 0, 4, 7, 2, 11, 13, 14, 0, 9, 8, 12, 14, 9, 11, 13, 0, 5, 1, 8, 2, 15, 9, 13, 13, 13>>))
    @@
    (("(None, 3)0f953d12a939fe4ef354fff77564841627136a6bf3667b256c4a5cb6768788da0af7ba66f9a27ed0e229221aada0cc88d5d6fd58f46f72eb626bd37b8e94efc8140fc148a380d69b8753d296355d450a4c606dfa652482747ab694cd6ac23972"
        :> <<4, 8, 14, 12, 3, 7, 9, 11, 12, 1, 2, 7, 2, 12, 4, 9, 2, 14, 3, 7, 14, 10, 2, 9, 0, 12, 4, 5, 5, 15, 12, 15, 1, 3, 10, 14, 13, 1, 10, 2, 5, 5, 15, 1, 2, 12, 7, 11, 10, 11, 6, 2, 8, 13, 6, 15, 9, 3, 3, 15, 6, 9, 15, 9>>)
    @@
    ("(None, 3)0f953d12a939fe4ef354fff77564841627136a6bf3667b256c4a5cb6768788da0af7ba66f9a27ed0e229221aada0cc88d5d6fd58f46f72eb626bd37b8e94efc87d3c95f98bd2b66af7c1d3a16cad13e01562539e02afc9695b86a5416092645f"
        :> <<0, 13, 8, 7, 7, 9, 14, 5, 7, 4, 2, 8, 2, 9, 15, 14, 0, 3, 6, 6, 1, 13, 3, 6, 12, 2, 14, 13, 7, 3, 13, 0, 0, 1, 4, 9, 5, 2, 2, 9, 13, 6, 11, 10, 6, 0, 6, 11, 4, 6, 1, 0, 1, 1, 6, 3, 12, 15, 8, 11, 13, 4, 12, 0>>)))))
    @@
    (((("(None, 3)0f953d12a939fe4ef354fff77564841627136a6bf3667b256c4a5cb6768788da0f953d12a939fe4ef354fff77564841627136a6bf3667b256c4a5cb6768788da"
        :> <<2, 2, 2, 6, 5, 4, 0, 2, 6, 1, 5, 14, 14, 11, 5, 8, 9, 2, 0, 15, 2, 6, 5, 12, 3, 11, 7, 5, 13, 4, 2, 8, 13, 2, 13, 12, 5, 15, 2, 9, 0, 3, 0, 4, 13, 11, 10, 1, 10, 14, 10, 12, 14, 9, 7, 3, 2, 4, 13, 7, 14, 12, 5, 5>>)
    @@
    (("(None, 3)0f953d12a939fe4ef354fff77564841627136a6bf3667b256c4a5cb6768788da0f953d12a939fe4ef354fff77564841627136a6bf3667b256c4a5cb6768788da0af7ba66f9a27ed0e229221aada0cc88d5d6fd58f46f72eb626bd37b8e94efc8"
        :> <<10, 2, 13, 9, 13, 8, 10, 2, 6, 2, 9, 14, 7, 0, 14, 1, 10, 0, 1, 13, 11, 3, 6, 14, 11, 6, 3, 14, 6, 13, 11, 7, 3, 11, 8, 8, 6, 10, 2, 6, 3, 9, 6, 10, 14, 8, 5, 7, 7, 9, 5, 0, 15, 13, 8, 10, 13, 5, 5, 12, 15, 7, 15, 14>>)
    @@
    ("(None, 3)0f953d12a939fe4ef354fff77564841627136a6bf3667b256c4a5cb6768788da0f953d12a939fe4ef354fff77564841627136a6bf3667b256c4a5cb6768788da0f953d12a939fe4ef354fff77564841627136a6bf3667b256c4a5cb6768788da"
        :> <<14, 13, 8, 15, 11, 12, 9, 3, 4, 7, 6, 1, 13, 14, 15, 12, 5, 2, 3, 13, 6, 1, 11, 8, 1, 6, 8, 8, 3, 3, 11, 14, 14, 11, 2, 4, 15, 3, 7, 4, 5, 3, 10, 9, 14, 3, 5, 10, 6, 7, 3, 3, 13, 15, 15, 5, 4, 14, 10, 7, 10, 3, 5, 14>>)))
    @@
    (("(None, 3)0f953d12a939fe4ef354fff77564841627136a6bf3667b256c4a5cb6768788da0f953d12a939fe4ef354fff77564841627136a6bf3667b256c4a5cb6768788da140fc148a380d69b8753d296355d450a4c606dfa652482747ab694cd6ac23972"
        :> <<5, 5, 15, 15, 1, 6, 6, 0, 10, 0, 3, 8, 10, 2, 6, 6, 11, 3, 5, 4, 13, 4, 1, 7, 14, 5, 11, 14, 1, 4, 0, 12, 10, 5, 15, 11, 15, 10, 11, 9, 7, 5, 5, 11, 10, 6, 7, 1, 13, 1, 15, 12, 5, 15, 1, 14, 0, 6, 10, 15, 13, 1, 9, 2>>)
    @@
    (("(None, 3)0f953d12a939fe4ef354fff77564841627136a6bf3667b256c4a5cb6768788da0f953d12a939fe4ef354fff77564841627136a6bf3667b256c4a5cb6768788da7d3c95f98bd2b66af7c1d3a16cad13e01562539e02afc9695b86a5416092645f"
        :> <<11, 4, 15, 2, 0, 13, 3, 6, 1, 5, 4, 9, 9, 14, 8, 8, 1, 11, 0, 9, 12, 0, 5, 5, 7, 2, 9, 10, 6, 6, 1, 1, 3, 4, 13, 10, 6, 0, 6, 9, 13, 9, 0, 2, 13, 2, 4, 4, 3, 14, 5, 9, 9, 11, 2, 13, 13, 13, 2, 9, 6, 7, 3, 12>>)
    @@
    ("(None, 3)0f953d12a939fe4ef354fff77564841627136a6bf3667b256c4a5cb6768788da140fc148a380d69b8753d296355d450a4c606dfa652482747ab694cd6ac23972"
        :> <<2, 1, 5, 10, 7, 3, 4, 10, 15, 11, 12, 14, 6, 10, 8, 6, 7, 11, 3, 5, 1, 15, 13, 7, 14, 3, 4, 0, 9, 7, 11, 8, 10, 13, 1, 3, 4, 9, 9, 5, 10, 6, 14, 13, 3, 8, 13, 8, 4, 4, 7, 12, 4, 15, 0, 6, 15, 8, 13, 10, 8, 8, 12, 11>>))))
    @@
    ((("(None, 3)0f953d12a939fe4ef354fff77564841627136a6bf3667b256c4a5cb6768788da140fc148a380d69b8753d296355d450a4c606dfa652482747ab694cd6ac239720af7ba66f9a27ed0e229221aada0cc88d5d6fd58f46f72eb626bd37b8e94efc8"
        :> <<9, 14, 4, 13, 5, 0, 1, 7, 14, 8, 1, 13, 0, 11, 10, 14, 11, 10, 1, 6, 5, 0, 14, 11, 10, 2, 12, 9, 5, 14, 4, 12, 5, 3, 9, 15, 7, 3, 12, 9, 8, 12, 10, 9, 7, 9, 10, 7, 9, 0, 10, 1, 4, 10, 11, 2, 8, 3, 6, 4, 9, 9, 1, 3>>)
    @@
    (("(None, 3)0f953d12a939fe4ef354fff77564841627136a6bf3667b256c4a5cb6768788da140fc148a380d69b8753d296355d450a4c606dfa652482747ab694cd6ac239720f953d12a939fe4ef354fff77564841627136a6bf3667b256c4a5cb6768788da"
        :> <<2, 5, 9, 11, 9, 8, 11, 4, 6, 3, 1, 2, 9, 10, 14, 12, 2, 10, 14, 6, 12, 2, 7, 0, 7, 5, 5, 11, 0, 9, 4, 9, 10, 0, 6, 0, 12, 4, 3, 3, 11, 9, 0, 11, 2, 7, 13, 11, 14, 2, 14, 6, 1, 6, 12, 9, 3, 8, 12, 4, 10, 6, 2, 0>>)
    @@
    ("(None, 3)0f953d12a939fe4ef354fff77564841627136a6bf3667b256c4a5cb6768788da140fc148a380d69b8753d296355d450a4c606dfa652482747ab694cd6ac23972140fc148a380d69b8753d296355d450a4c606dfa652482747ab694cd6ac23972"
        :> <<7, 12, 2, 13, 13, 3, 11, 5, 15, 8, 0, 3, 14, 6, 14, 14, 0, 5, 5, 13, 0, 12, 15, 12, 0, 4, 11, 13, 0, 14, 2, 0, 9, 3, 4, 11, 4, 13, 2, 6, 3, 13, 4, 11, 0, 3, 5, 1, 1, 7, 3, 12, 12, 8, 0, 11, 9, 10, 8, 9, 11, 1, 4, 13>>)))
    @@
    ((("(None, 3)0f953d12a939fe4ef354fff77564841627136a6bf3667b256c4a5cb6768788da140fc148a380d69b8753d296355d450a4c606dfa652482747ab694cd6ac239727d3c95f98bd2b66af7c1d3a16cad13e01562539e02afc9695b86a5416092645f"
        :> <<2, 6, 1, 14, 9, 9, 12, 10, 8, 3, 12, 12, 12, 12, 13, 13, 7, 1, 12, 1, 3, 2, 4, 5, 1, 1, 4, 12, 11, 6, 9, 2, 2, 5, 2, 4, 0, 12, 10, 6, 3, 3, 2, 5, 4, 10, 11, 5, 6, 10, 8, 5, 8, 9, 1, 11, 11, 7, 4, 15, 9, 9, 6, 12>>)
    @@
    ("(None, 3)0f953d12a939fe4ef354fff77564841627136a6bf3667b256c4a5cb6768788da7d3c95f98bd2b66af7c1d3a16cad13e01562539e02afc9695b86a5416092645f"
        :> <<6, 10, 1, 3, 8, 1, 5, 3, 11, 14, 11, 6, 11, 15, 9, 5, 1, 14, 12, 4, 9, 11, 0, 10, 3, 0, 3, 13, 5, 5, 10, 4, 2, 12, 12, 11, 4, 0, 13, 7, 13, 13, 4, 2, 14, 5, 7, 9, 14, 4, 10, 5, 13, 15, 4, 3, 7, 15, 8, 12, 13, 0, 6, 15>>))
    @@
    (("(None, 3)0f953d12a939fe4ef354fff77564841627136a6bf3667b256c4a5cb6768788da7d3c95f98bd2b66af7c1d3a16cad13e01562539e02afc9695b86a5416092645f0af7ba66f9a27ed0e229221aada0cc88d5d6fd58f46f72eb626bd37b8e94efc8"
        :> <<2, 11, 9, 13, 9, 15, 11, 9, 2, 5, 4, 10, 0, 9, 6, 3, 7, 15, 9, 0, 3, 15, 13, 12, 7, 10, 8, 8, 7, 1, 2, 15, 13, 2, 14, 3, 11, 6, 8, 6, 7, 12, 9, 8, 10, 14, 4, 6, 13, 10, 10, 12, 13, 11, 9, 1, 7, 12, 10, 10, 12, 5, 1, 2>>)
    @@
    ("(None, 3)0f953d12a939fe4ef354fff77564841627136a6bf3667b256c4a5cb6768788da7d3c95f98bd2b66af7c1d3a16cad13e01562539e02afc9695b86a5416092645f0f953d12a939fe4ef354fff77564841627136a6bf3667b256c4a5cb6768788da"
        :> <<5, 6, 3, 9, 12, 13, 1, 0, 9, 4, 9, 7, 0, 5, 2, 8, 8, 3, 5, 4, 13, 8, 13, 8, 6, 8, 4, 9, 2, 5, 10, 12, 2, 14, 8, 13, 3, 0, 1, 10, 2, 4, 1, 4, 6, 9, 12, 1, 9, 14, 15, 7, 13, 8, 15, 5, 1, 14, 13, 2, 6, 1, 15, 13>>)))))))
    @@
    (((((("(None, 3)0f953d12a939fe4ef354fff77564841627136a6bf3667b256c4a5cb6768788da7d3c95f98bd2b66af7c1d3a16cad13e01562539e02afc9695b86a5416092645f140fc148a380d69b8753d296355d450a4c606dfa652482747ab694cd6ac23972"
        :> <<2, 7, 5, 9, 10, 14, 10, 14, 8, 11, 0, 7, 3, 14, 14, 12, 13, 5, 6, 4, 13, 0, 13, 15, 6, 15, 8, 10, 15, 13, 9, 2, 1, 11, 6, 8, 0, 5, 6, 5, 11, 5, 0, 12, 6, 3, 3, 4, 3, 6, 3, 14, 2, 15, 9, 2, 1, 3, 10, 2, 13, 2, 8, 3>>)
    @@
    (("(None, 3)0f953d12a939fe4ef354fff77564841627136a6bf3667b256c4a5cb6768788da7d3c95f98bd2b66af7c1d3a16cad13e01562539e02afc9695b86a5416092645f7d3c95f98bd2b66af7c1d3a16cad13e01562539e02afc9695b86a5416092645f"
        :> <<6, 3, 1, 3, 10, 5, 10, 9, 6, 10, 3, 7, 14, 3, 7, 9, 10, 8, 10, 0, 7, 9, 1, 6, 14, 12, 11, 5, 10, 15, 6, 14, 13, 14, 5, 0, 11, 15, 15, 8, 9, 13, 1, 13, 6, 0, 3, 5, 15, 14, 10, 12, 0, 4, 1, 0, 4, 6, 0, 6, 15, 14, 9, 13>>)
    @@
    ("(None, 3)140fc148a380d69b8753d296355d450a4c606dfa652482747ab694cd6ac23972"
        :> <<10, 8, 1, 1, 3, 6, 15, 6, 10, 2, 2, 14, 11, 4, 0, 5, 15, 4, 7, 6, 9, 1, 8, 0, 1, 12, 15, 10, 5, 14, 7, 0, 15, 7, 11, 12, 13, 14, 4, 0, 11, 8, 1, 12, 2, 0, 1, 15, 3, 14, 11, 7, 7, 1, 4, 6, 4, 15, 9, 8, 9, 9, 14, 0>>)))
    @@
    (("(None, 3)140fc148a380d69b8753d296355d450a4c606dfa652482747ab694cd6ac239720af7ba66f9a27ed0e229221aada0cc88d5d6fd58f46f72eb626bd37b8e94efc8"
        :> <<3, 5, 8, 4, 5, 1, 14, 0, 4, 7, 8, 12, 1, 7, 6, 4, 11, 2, 12, 1, 12, 13, 0, 11, 11, 15, 7, 6, 13, 13, 10, 0, 4, 1, 9, 15, 1, 2, 5, 0, 15, 7, 7, 6, 9, 12, 15, 6, 12, 6, 5, 8, 1, 4, 5, 0, 1, 4, 6, 5, 12, 9, 11, 10>>)
    @@
    (("(None, 3)140fc148a380d69b8753d296355d450a4c606dfa652482747ab694cd6ac239720af7ba66f9a27ed0e229221aada0cc88d5d6fd58f46f72eb626bd37b8e94efc80af7ba66f9a27ed0e229221aada0cc88d5d6fd58f46f72eb626bd37b8e94efc8"
        :> <<12, 0, 4, 14, 4, 1, 8, 6, 2, 13, 1, 10, 5, 13, 3, 9, 10, 10, 1, 15, 8, 7, 12, 4, 8, 7, 2, 6, 10, 9, 7, 11, 9, 12, 7, 2, 9, 0, 3, 5, 7, 1, 12, 14, 1, 5, 2, 2, 9, 12, 12, 2, 15, 9, 5, 7, 13, 10, 11, 3, 11, 13, 8, 5>>)
    @@
    ("(None, 3)140fc148a380d69b8753d296355d450a4c606dfa652482747ab694cd6ac239720af7ba66f9a27ed0e229221aada0cc88d5d6fd58f46f72eb626bd37b8e94efc80f953d12a939fe4ef354fff77564841627136a6bf3667b256c4a5cb6768788da"
        :> <<9, 11, 9, 13, 1, 5, 4, 6, 10, 5, 3, 12, 4, 5, 4, 14, 14, 15, 3, 7, 7, 9, 10, 9, 14, 5, 13, 12, 3, 6, 13, 5, 2, 1, 12, 9, 9, 8, 2, 3, 14, 3, 0, 14, 15, 2, 4, 14, 10, 10, 3, 11, 2, 3, 11, 8, 7, 2, 13, 5, 5, 15, 11, 8>>))))
    @@
    ((("(None, 3)140fc148a380d69b8753d296355d450a4c606dfa652482747ab694cd6ac239720af7ba66f9a27ed0e229221aada0cc88d5d6fd58f46f72eb626bd37b8e94efc8140fc148a380d69b8753d296355d450a4c606dfa652482747ab694cd6ac23972"
        :> <<7, 15, 1, 2, 0, 5, 7, 13, 5, 1, 8, 11, 9, 9, 4, 6, 5, 6, 9, 0, 13, 15, 14, 12, 4, 13, 14, 1, 11, 4, 2, 11, 14, 0, 13, 0, 11, 11, 6, 1, 12, 3, 7, 12, 11, 3, 8, 15, 10, 3, 2, 15, 12, 10, 5, 5, 11, 9, 14, 1, 8, 0, 15, 7>>)
    @@
    (("(None, 3)140fc148a380d69b8753d296355d450a4c606dfa652482747ab694cd6ac239720af7ba66f9a27ed0e229221aada0cc88d5d6fd58f46f72eb626bd37b8e94efc87d3c95f98bd2b66af7c1d3a16cad13e01562539e02afc9695b86a5416092645f"
        :> <<0, 8, 1, 13, 1, 4, 12, 12, 13, 15, 6, 12, 9, 0, 10, 5, 12, 9, 1, 1, 7, 6, 12, 11, 0, 12, 13, 0, 5, 14, 15, 10, 9, 3, 11, 9, 15, 13, 5, 13, 3, 2, 2, 1, 12, 12, 0, 2, 15, 3, 4, 11, 14, 12, 0, 8, 0, 5, 7, 14, 9, 6, 13, 14>>)
    @@
    ("(None, 3)140fc148a380d69b8753d296355d450a4c606dfa652482747ab694cd6ac239720f953d12a939fe4ef354fff77564841627136a6bf3667b256c4a5cb6768788da"
        :> <<9, 1, 3, 7, 2, 2, 0, 11, 12, 2, 8, 9, 15, 1, 5, 7, 15, 6, 13, 3, 7, 7, 5, 12, 12, 5, 9, 3, 0, 14, 13, 2, 12, 7, 6, 6, 15, 13, 8, 13, 6, 14, 6, 5, 13, 15, 11, 2, 15, 6, 1, 10, 15, 15, 0, 15, 11, 8, 5, 9, 11, 0, 15, 1>>)))
    @@
    ((("(None, 3)140fc148a380d69b8753d296355d450a4c606dfa652482747ab694cd6ac239720f953d12a939fe4ef354fff77564841627136a6bf3667b256c4a5cb6768788da0af7ba66f9a27ed0e229221aada0cc88d5d6fd58f46f72eb626bd37b8e94efc8"
        :> <<5, 13, 9, 4, 9, 5, 10, 7, 3, 13, 15, 3, 14, 1, 7, 5, 11, 3, 2, 1, 7, 14, 1, 12, 3, 5, 15, 13, 4, 1, 0, 15, 10, 6, 0, 7, 8, 13, 11, 13, 8, 0, 7, 11, 9, 8, 6, 12, 9, 12, 14, 13, 3, 1, 1, 0, 10, 3, 6, 1, 11, 15, 1, 12>>)
    @@
    ("(None, 3)140fc148a380d69b8753d296355d450a4c606dfa652482747ab694cd6ac239720f953d12a939fe4ef354fff77564841627136a6bf3667b256c4a5cb6768788da0f953d12a939fe4ef354fff77564841627136a6bf3667b256c4a5cb6768788da"
        :> <<5, 12, 10, 9, 1, 5, 5, 7, 1, 4, 4, 13, 14, 0, 12, 4, 4, 13, 8, 13, 11, 3, 12, 12, 1, 2, 9, 4, 14, 11, 15, 0, 6, 2, 4, 10, 13, 4, 1, 5, 12, 0, 9, 11, 7, 1, 1, 11, 10, 1, 14, 0, 1, 11, 3, 3, 2, 6, 2, 11, 11, 7, 2, 1>>))
    @@
    (("(None, 3)140fc148a380d69b8753d296355d450a4c606dfa652482747ab694cd6ac239720f953d12a939fe4ef354fff77564841627136a6bf3667b256c4a5cb6768788da140fc148a380d69b8753d296355d450a4c606dfa652482747ab694cd6ac23972"
        :> <<2, 11, 1, 12, 3, 5, 6, 11, 14, 0, 3, 3, 3, 2, 15, 15, 9, 11, 6, 10, 14, 4, 0, 0, 5, 2, 8, 6, 1, 2, 14, 2, 13, 11, 10, 12, 12, 9, 4, 9, 0, 13, 2, 6, 5, 15, 10, 5, 7, 12, 12, 6, 10, 5, 6, 0, 11, 14, 13, 12, 13, 2, 4, 1>>)
    @@
    ("(None, 3)140fc148a380d69b8753d296355d450a4c606dfa652482747ab694cd6ac239720f953d12a939fe4ef354fff77564841627136a6bf3667b256c4a5cb6768788da7d3c95f98bd2b66af7c1d3a16cad13e01562539e02afc9695b86a5416092645f"
        :> <<3, 7, 6, 2, 5, 8, 13, 8, 13, 9, 10, 15, 9, 6, 15, 11, 11, 7, 1, 3, 6, 5, 12, 5, 5, 11, 10, 4, 0, 5, 2, 15, 2, 7, 2, 3, 0, 8, 5, 10, 8, 6, 3, 15, 6, 0, 13, 4, 0, 13, 3, 7, 7, 13, 9, 6, 9, 8, 9, 1, 10, 8, 14, 3>>)))))
    @@
    (((("(None, 3)140fc148a380d69b8753d296355d450a4c606dfa652482747ab694cd6ac23972140fc148a380d69b8753d296355d450a4c606dfa652482747ab694cd6ac23972"
        :> <<6, 15, 6, 8, 3, 4, 3, 7, 3, 13, 0, 6, 5, 10, 7, 5, 2, 0, 2, 5, 9, 13, 8, 14, 14, 9, 8, 10, 6, 0, 3, 9, 0, 1, 6, 10, 5, 2, 3, 6, 3, 12, 6, 9, 11, 14, 15, 13, 1, 5, 2, 11, 8, 11, 13, 7, 14, 3, 10, 14, 0, 4, 0, 7>>)
    @@
    (("(None, 3)140fc148a380d69b8753d296355d450a4c606dfa652482747ab694cd6ac23972140fc148a380d69b8753d296355d450a4c606dfa652482747ab694cd6ac239720af7ba66f9a27ed0e229221aada0cc88d5d6fd58f46f72eb626bd37b8e94efc8"
        :> <<8, 1, 2, 4, 5, 6, 10, 0, 11, 3, 15, 2, 14, 2, 2, 6, 11, 11, 3, 0, 6, 11, 13, 15, 8, 3, 15, 14, 15, 5, 4, 9, 10, 11, 7, 8, 3, 10, 10, 10, 4, 5, 7, 11, 2, 14, 2, 7, 13, 0, 14, 4, 14, 3, 6, 10, 5, 9, 8, 3, 6, 9, 8, 7>>)
    @@
    ("(None, 3)140fc148a380d69b8753d296355d450a4c606dfa652482747ab694cd6ac23972140fc148a380d69b8753d296355d450a4c606dfa652482747ab694cd6ac239720f953d12a939fe4ef354fff77564841627136a6bf3667b256c4a5cb6768788da"
        :> <<4, 12, 5, 15, 0, 7, 7, 6, 8, 8, 7, 12, 15, 8, 4, 9, 9, 11, 13, 14, 15, 4, 9, 3, 12, 11, 4, 5, 2, 3, 0, 0, 15, 8, 9, 2, 6, 2, 2, 1, 15, 4, 2, 7, 8, 9, 8, 4, 15, 12, 9, 0, 12, 0, 4, 13, 4, 4, 14, 6, 1, 6, 11, 15>>)))
    @@
    (("(None, 3)140fc148a380d69b8753d296355d450a4c606dfa652482747ab694cd6ac23972140fc148a380d69b8753d296355d450a4c606dfa652482747ab694cd6ac23972140fc148a380d69b8753d296355d450a4c606dfa652482747ab694cd6ac23972"
        :> <<15, 7, 10, 0, 7, 8, 13, 0, 0, 1, 8, 0, 14, 15, 13, 1, 11, 12, 2, 2, 5, 4, 7, 15, 0, 14, 9, 14, 11, 9, 4, 3, 13, 4, 8, 0, 11, 2, 2, 6, 14, 13, 10, 2, 8, 14, 6, 9, 9, 15, 8, 15, 7, 13, 14, 13, 14, 15, 3, 11, 10, 0, 13, 5>>)
    @@
    (("(None, 3)140fc148a380d69b8753d296355d450a4c606dfa652482747ab694cd6ac23972140fc148a380d69b8753d296355d450a4c606dfa652482747ab694cd6ac239727d3c95f98bd2b66af7c1d3a16cad13e01562539e02afc9695b86a5416092645f"
        :> <<7, 11, 0, 9, 0, 13, 14, 6, 13, 12, 1, 10, 5, 5, 3, 15, 10, 12, 4, 6, 13, 6, 0, 1, 13, 1, 15, 3, 6, 11, 13, 6, 15, 12, 14, 10, 13, 10, 0, 4, 5, 13, 7, 5, 9, 1, 7, 5, 10, 11, 12, 11, 6, 4, 13, 13, 15, 15, 11, 15, 11, 6, 11, 11>>)
    @@
    ("(None, 3)140fc148a380d69b8753d296355d450a4c606dfa652482747ab694cd6ac239727d3c95f98bd2b66af7c1d3a16cad13e01562539e02afc9695b86a5416092645f"
        :> <<12, 9, 9, 3, 13, 0, 2, 9, 8, 9, 2, 14, 10, 6, 10, 7, 4, 9, 15, 15, 14, 9, 13, 6, 3, 4, 3, 6, 14, 15, 14, 0, 15, 8, 14, 1, 4, 3, 0, 2, 11, 10, 0, 13, 7, 5, 15, 5, 15, 11, 2, 12, 0, 7, 4, 13, 14, 2, 8, 7, 13, 10, 13, 14>>))))
    @@
    ((("(None, 3)140fc148a380d69b8753d296355d450a4c606dfa652482747ab694cd6ac239727d3c95f98bd2b66af7c1d3a16cad13e01562539e02afc9695b86a5416092645f0af7ba66f9a27ed0e229221aada0cc88d5d6fd58f46f72eb626bd37b8e94efc8"
        :> <<10, 14, 5, 2, 15, 13, 7, 8, 11, 12, 8, 3, 8, 0, 0, 11, 13, 8, 7, 5, 14, 8, 4, 13, 12, 8, 0, 8, 15, 7, 5, 6, 11, 15, 9, 7, 12, 0, 10, 8, 0, 0, 13, 5, 14, 2, 7, 3, 12, 6, 10, 3, 8, 3, 13, 14, 5, 1, 11, 0, 3, 7, 10, 4>>)
    @@
    (("(None, 3)140fc148a380d69b8753d296355d450a4c606dfa652482747ab694cd6ac239727d3c95f98bd2b66af7c1d3a16cad13e01562539e02afc9695b86a5416092645f0f953d12a939fe4ef354fff77564841627136a6bf3667b256c4a5cb6768788da"
        :> <<12, 15, 14, 4, 0, 11, 1, 8, 1, 3, 14, 3, 11, 13, 2, 7, 8, 14, 1, 12, 3, 4, 2, 2, 2, 10, 6, 1, 12, 5, 6, 13, 12, 14, 2, 8, 6, 2, 5, 2, 15, 10, 14, 14, 3, 11, 0, 0, 13, 10, 8, 3, 15, 9, 15, 0, 13, 9, 9, 10, 4, 8, 12, 4>>)
    @@
    ("(None, 3)140fc148a380d69b8753d296355d450a4c606dfa652482747ab694cd6ac239727d3c95f98bd2b66af7c1d3a16cad13e01562539e02afc9695b86a5416092645f140fc148a380d69b8753d296355d450a4c606dfa652482747ab694cd6ac23972"
        :> <<6, 0, 9, 13, 11, 13, 1, 7, 0, 2, 14, 1, 13, 14, 8, 14, 12, 4, 4, 0, 6, 12, 5, 0, 5, 8, 8, 15, 7, 9, 9, 4, 13, 3, 6, 1, 5, 8, 7, 10, 11, 3, 3, 2, 8, 2, 5, 11, 6, 9, 11, 1, 10, 0, 12, 1, 0, 14, 9, 15, 9, 15, 8, 2>>)))
    @@
    ((("(None, 3)140fc148a380d69b8753d296355d450a4c606dfa652482747ab694cd6ac239727d3c95f98bd2b66af7c1d3a16cad13e01562539e02afc9695b86a5416092645f7d3c95f98bd2b66af7c1d3a16cad13e01562539e02afc9695b86a5416092645f"
        :> <<7, 14, 14, 4, 6, 14, 1, 5, 2, 2, 12, 12, 6, 6, 13, 1, 15, 14, 7, 11, 13, 2, 3, 10, 8, 14, 11, 6, 13, 10, 6, 15, 12, 7, 10, 8, 11, 7, 14, 4, 4, 2, 10, 8, 9, 10, 4, 6, 12, 6, 12, 11, 2, 7, 10, 9, 9, 9, 10, 8, 1, 5, 7, 9>>)
    @@
    ("(None, 3)7d3c95f98bd2b66af7c1d3a16cad13e01562539e02afc9695b86a5416092645f"
        :> <<12, 11, 1, 1, 6, 7, 10, 0, 2, 15, 12, 4, 6, 1, 13, 2, 0, 11, 9, 10, 3, 3, 15, 2, 10, 10, 15, 1, 4, 15, 8, 12, 8, 4, 2, 11, 14, 12, 13, 3, 7, 6, 3, 3, 14, 0, 5, 7, 11, 15, 1, 1, 3, 14, 7, 1, 8, 11, 1, 9, 1, 1, 9, 13>>))
    @@
    (("(None, 3)7d3c95f98bd2b66af7c1d3a16cad13e01562539e02afc9695b86a5416092645f0af7ba66f9a27ed0e229221aada0cc88d5d6fd58f46f72eb626bd37b8e94efc8"
        :> <<11, 2, 7, 5, 4, 4, 14, 13, 10, 7, 6, 2, 4, 4, 2, 14, 7, 14, 7, 7, 8, 8, 4, 2, 5, 3, 8, 5, 2, 8, 0, 2, 9, 8, 14, 8, 13, 8, 10, 14, 8, 8, 10, 1, 13, 14, 10, 0, 3, 10, 14, 1, 7, 5, 0, 12, 0, 12, 5, 14, 7, 4, 0, 5>>)
    @@
    ("(None, 3)7d3c95f98bd2b66af7c1d3a16cad13e01562539e02afc9695b86a5416092645f0af7ba66f9a27ed0e229221aada0cc88d5d6fd58f46f72eb626bd37b8e94efc80af7ba66f9a27ed0e229221aada0cc88d5d6fd58f46f72eb626bd37b8e94efc8"
        :> <<14, 6, 11, 4, 5, 4, 11, 15, 15, 4, 1, 8, 15, 15, 4, 7, 4, 2, 11, 2, 3, 3, 1, 4, 11, 1, 11, 0, 2, 4, 4, 2, 0, 15, 2, 7, 12, 7, 13, 3, 9, 11, 8, 5, 0, 5, 3, 5, 0, 5, 14, 14, 6, 10, 6, 11, 10, 13, 11, 9, 13, 1, 14, 2>>))))))
    @@
    ((((("(None, 3)7d3c95f98bd2b66af7c1d3a16cad13e01562539e02afc9695b86a5416092645f0af7ba66f9a27ed0e229221aada0cc88d5d6fd58f46f72eb626bd37b8e94efc80f953d12a939fe4ef354fff77564841627136a6bf3667b256c4a5cb6768788da"
        :> <<6, 12, 12, 14, 4, 9, 1, 6, 11, 2, 4, 13, 14, 3, 2, 7, 7, 6, 1, 0, 6, 5, 11, 13, 3, 2, 4, 14, 12, 1, 12, 7, 7, 9, 9, 15, 7, 7, 0, 7, 0, 8, 14, 13, 10, 6, 10, 4, 5, 5, 4, 1, 3, 15, 0, 15, 5, 15, 7, 1, 12, 11, 14, 11>>)
    @@
    (("(None, 3)7d3c95f98bd2b66af7c1d3a16cad13e01562539e02afc9695b86a5416092645f0af7ba66f9a27ed0e229221aada0cc88d5d6fd58f46f72eb626bd37b8e94efc8140fc148a380d69b8753d296355d450a4c606dfa652482747ab694cd6ac23972"
        :> <<3, 2, 15, 10, 11, 7, 13, 1, 6, 14, 13, 11, 4, 12, 14, 14, 5, 14, 10, 9, 9, 13, 3, 5, 4, 0, 1, 4, 6, 7, 1, 7, 10, 12, 11, 10, 15, 1, 14, 9, 12, 10, 0, 1, 10, 0, 5, 15, 1, 0, 8, 7, 3, 12, 3, 8, 6, 3, 9, 8, 6, 8, 7, 3>>)
    @@
    ("(None, 3)7d3c95f98bd2b66af7c1d3a16cad13e01562539e02afc9695b86a5416092645f0af7ba66f9a27ed0e229221aada0cc88d5d6fd58f46f72eb626bd37b8e94efc87d3c95f98bd2b66af7c1d3a16cad13e01562539e02afc9695b86a5416092645f"
        :> <<10, 14, 3, 15, 14, 1, 14, 11, 4, 8, 13, 3, 7, 8, 9, 2, 13, 2, 4, 8, 10, 5, 4, 5, 10, 11, 9, 9, 12, 15, 2, 12, 0, 12, 0, 3, 10, 4, 0, 2, 1, 4, 0, 8, 12, 13, 15, 12, 7, 15, 7, 7, 6, 5, 9, 6, 1, 6, 4, 4, 0, 6, 2, 15>>)))
    @@
    (("(None, 3)7d3c95f98bd2b66af7c1d3a16cad13e01562539e02afc9695b86a5416092645f0f953d12a939fe4ef354fff77564841627136a6bf3667b256c4a5cb6768788da"
        :> <<11, 15, 8, 7, 2, 0, 10, 9, 8, 15, 3, 12, 10, 13, 0, 6, 10, 10, 3, 2, 5, 5, 3, 3, 13, 14, 7, 0, 2, 7, 6, 0, 14, 15, 0, 0, 8, 13, 5, 7, 15, 11, 6, 7, 13, 4, 10, 7, 6, 15, 9, 11, 5, 15, 15, 8, 13, 13, 1, 15, 7, 9, 2, 7>>)
    @@
    (("(None, 3)7d3c95f98bd2b66af7c1d3a16cad13e01562539e02afc9695b86a5416092645f0f953d12a939fe4ef354fff77564841627136a6bf3667b256c4a5cb6768788da0af7ba66f9a27ed0e229221aada0cc88d5d6fd58f46f72eb626bd37b8e94efc8"
        :> <<2, 7, 1, 8, 10, 7, 5, 2, 5, 12, 12, 10, 1, 9, 4, 0, 4, 11, 3, 12, 5, 11, 7, 2, 5, 10, 9, 8, 4, 13, 2, 7, 14, 9, 14, 11, 15, 6, 5, 11, 2, 0, 5, 2, 7, 1, 3, 0, 1, 14, 0, 8, 1, 1, 13, 4, 2, 7, 13, 10, 3, 3, 14, 2>>)
    @@
    ("(None, 3)7d3c95f98bd2b66af7c1d3a16cad13e01562539e02afc9695b86a5416092645f0f953d12a939fe4ef354fff77564841627136a6bf3667b256c4a5cb6768788da0f953d12a939fe4ef354fff77564841627136a6bf3667b256c4a5cb6768788da"
        :> <<15, 11, 6, 3, 4, 6, 12, 11, 10, 13, 10, 7, 5, 10, 14, 12, 1, 1, 1, 2, 15, 9, 15, 11, 10, 4, 1, 5, 6, 4, 13, 6, 13, 13, 10, 9, 4, 4, 12, 1, 4, 9, 9, 2, 12, 13, 2, 2, 9, 2, 1, 10, 4, 6, 0, 11, 4, 5, 9, 10, 4, 8, 6, 9>>))))
    @@
    ((("(None, 3)7d3c95f98bd2b66af7c1d3a16cad13e01562539e02afc9695b86a5416092645f0f953d12a939fe4ef354fff77564841627136a6bf3667b256c4a5cb6768788da140fc148a380d69b8753d296355d450a4c606dfa652482747ab694cd6ac23972"
        :> <<0, 5, 2, 7, 8, 8, 12, 7, 14, 3, 7, 1, 13, 8, 12, 0, 11, 6, 14, 10, 10, 9, 11, 1, 5, 4, 13, 1, 2, 11, 8, 12, 4, 6, 8, 4, 11, 12, 1, 13, 8, 14, 12, 2, 8, 13, 14, 5, 12, 4, 0, 13, 2, 2, 10, 9, 2, 15, 2, 9, 4, 13, 2, 13>>)
    @@
    (("(None, 3)7d3c95f98bd2b66af7c1d3a16cad13e01562539e02afc9695b86a5416092645f0f953d12a939fe4ef354fff77564841627136a6bf3667b256c4a5cb6768788da7d3c95f98bd2b66af7c1d3a16cad13e01562539e02afc9695b86a5416092645f"
        :> <<12, 4, 3, 4, 6, 10, 13, 4, 2, 12, 11, 14, 11, 7, 12, 12, 6, 11, 6, 14, 9, 10, 6, 12, 9, 5, 2, 7, 13, 7, 1, 5, 15, 13, 14, 11, 5, 3, 12, 3, 5, 15, 14, 0, 14, 11, 4, 9, 0, 5, 1, 5, 0, 4, 12, 3, 3, 0, 2, 0, 0, 2, 1, 9>>)
    @@
    ("(None, 3)7d3c95f98bd2b66af7c1d3a16cad13e01562539e02afc9695b86a5416092645f140fc148a380d69b8753d296355d450a4c606dfa652482747ab694cd6ac23972"
        :> <<8, 11, 9, 4, 15, 10, 8, 4, 2, 5, 4, 13, 12, 8, 0, 10, 14, 6, 1, 13, 11, 3, 15, 5, 12, 5, 10, 12, 6, 13, 0, 3, 7, 11, 11, 2, 0, 14, 0, 5, 2, 13, 11, 4, 2, 12, 14, 4, 14, 12, 11, 11, 11, 6, 4, 0, 11, 2, 1, 7, 4, 13, 8, 6>>)))
    @@
    ((("(None, 3)7d3c95f98bd2b66af7c1d3a16cad13e01562539e02afc9695b86a5416092645f140fc148a380d69b8753d296355d450a4c606dfa652482747ab694cd6ac239720af7ba66f9a27ed0e229221aada0cc88d5d6fd58f46f72eb626bd37b8e94efc8"
        :> <<9, 1, 12, 4, 10, 12, 2, 14, 9, 5, 13, 13, 8, 1, 7, 2, 10, 1, 10, 12, 13, 6, 11, 11, 13, 4, 2, 0, 14, 13, 13, 15, 7, 4, 6, 9, 6, 1, 6, 15, 14, 15, 12, 9, 7, 9, 2, 1, 3, 6, 5, 12, 9, 8, 13, 0, 14, 7, 14, 13, 0, 9, 9, 14>>)
    @@
    ("(None, 3)7d3c95f98bd2b66af7c1d3a16cad13e01562539e02afc9695b86a5416092645f140fc148a380d69b8753d296355d450a4c606dfa652482747ab694cd6ac239720f953d12a939fe4ef354fff77564841627136a6bf3667b256c4a5cb6768788da"
        :> <<10, 5, 9, 9, 13, 15, 4, 1, 8, 15, 14, 2, 7, 1, 1, 1, 13, 11, 2, 5, 7, 15, 14, 6, 10, 3, 11, 13, 3, 6, 10, 7, 12, 13, 12, 12, 10, 3, 11, 8, 4, 2, 5, 14, 11, 13, 12, 8, 12, 6, 0, 13, 13, 4, 7, 8, 3, 7, 1, 7, 12, 8, 12, 15>>))
    @@
    (("(None, 3)7d3c95f98bd2b66af7c1d3a16cad13e01562539e02afc9695b86a5416092645f140fc148a380d69b8753d296355d450a4c606dfa652482747ab694cd6ac23972140fc148a380d69b8753d296355d450a4c606dfa652482747ab694cd6ac23972"
        :> <<3, 4, 4, 7, 0, 4, 1, 12, 5, 9, 7, 1, 0, 10, 11, 12, 0, 0, 9, 3, 13, 0, 13, 7, 9, 6, 3, 11, 6, 11, 13, 14, 2, 10, 5, 1, 7, 10, 12, 4, 7, 9, 9, 12, 3, 5, 4, 1, 10, 7, 14, 8, 3, 8, 6, 13, 1, 4, 11, 0, 13, 9, 7, 7>>)
    @@
    ("(None, 3)7d3c95f98bd2b66af7c1d3a16cad13e01562539e02afc9695b86a5416092645f140fc148a380d69b8753d296355d450a4c606dfa652482747ab694cd6ac239727d3c95f98bd2b66af7c1d3a16cad13e01562539e02afc9695b86a5416092645f"
        :> <<13, 2, 15, 11, 6, 5, 12, 5, 13, 9, 9, 4, 2, 2, 5, 8, 0, 8, 15, 1, 9, 7, 1, 13, 4, 9, 3, 2, 0, 13, 13, 12, 6, 7, 2, 7, 1, 2, 14, 8, 0, 7, 15, 11, 14, 8, 15, 9, 15, 4, 2, 4, 8, 3, 13, 14, 15, 10, 5, 4, 0, 4, 8, 5>>)))))
    @@
    (((("(None, 3)7d3c95f98bd2b66af7c1d3a16cad13e01562539e02afc9695b86a5416092645f7d3c95f98bd2b66af7c1d3a16cad13e01562539e02afc9695b86a5416092645f"
        :> <<9, 4, 14, 5, 9, 15, 11, 4, 10, 4, 7, 11, 13, 8, 11, 10, 8, 3, 0, 10, 13, 7, 5, 3, 8, 9, 0, 9, 11, 11, 5, 13, 7, 15, 10, 6, 11, 1, 10, 15, 10, 12, 3, 1, 13, 1, 3, 10, 1, 2, 0, 13, 15, 14, 0, 12, 3, 15, 14, 10, 2, 2, 10, 4>>)
    @@
    (("(None, 3)7d3c95f98bd2b66af7c1d3a16cad13e01562539e02afc9695b86a5416092645f7d3c95f98bd2b66af7c1d3a16cad13e01562539e02afc9695b86a5416092645f0af7ba66f9a27ed0e229221aada0cc88d5d6fd58f46f72eb626bd37b8e94efc8"
        :> <<6, 3, 8, 1, 6, 2, 6, 5, 0, 4, 15, 11, 13, 13, 8, 4, 4, 10, 2, 6, 14, 0, 4, 0, 2, 14, 5, 4, 12, 4, 14, 13, 7, 11, 7, 1, 2, 12, 2, 12, 10, 9, 8, 5, 12, 13, 7, 11, 9, 2, 7, 7, 0, 8, 15, 0, 4, 14, 0, 8, 0, 15, 5, 6>>)
    @@
    ("(None, 3)7d3c95f98bd2b66af7c1d3a16cad13e01562539e02afc9695b86a5416092645f7d3c95f98bd2b66af7c1d3a16cad13e01562539e02afc9695b86a5416092645f0f953d12a939fe4ef354fff77564841627136a6bf3667b256c4a5cb6768788da"
        :> <<11, 7, 4, 14, 13, 5, 1, 8, 10, 0, 9, 7, 5, 8, 7, 13, 15, 3, 12, 9, 12, 1, 14, 2, 3, 13, 5, 2, 7, 7, 6, 0, 15, 4, 2, 14, 1, 7, 1, 9, 6, 5, 4, 14, 2, 15, 7, 9, 12, 14, 10, 10, 11, 7, 10, 9, 11, 7, 4, 4, 7, 9, 2, 0>>)))
    @@
    ((("(None, 3)7d3c95f98bd2b66af7c1d3a16cad13e01562539e02afc9695b86a5416092645f7d3c95f98bd2b66af7c1d3a16cad13e01562539e02afc9695b86a5416092645f140fc148a380d69b8753d296355d450a4c606dfa652482747ab694cd6ac23972"
        :> <<12, 3, 6, 9, 4, 12, 11, 9, 10, 12, 11, 7, 7, 10, 10, 13, 5, 1, 14, 9, 1, 10, 1, 15, 10, 12, 11, 9, 7, 6, 1, 5, 15, 12, 5, 15, 13, 15, 11, 3, 1, 14, 14, 15, 12, 6, 1, 1, 8, 10, 0, 15, 1, 15, 0, 15, 6, 3, 1, 14, 14, 12, 5, 7>>)
    @@
    ("(None, 3)7d3c95f98bd2b66af7c1d3a16cad13e01562539e02afc9695b86a5416092645f7d3c95f98bd2b66af7c1d3a16cad13e01562539e02afc9695b86a5416092645f7d3c95f98bd2b66af7c1d3a16cad13e01562539e02afc9695b86a5416092645f"
        :> <<15, 11, 3, 15, 15, 15, 6, 13, 0, 1, 13, 5, 14, 2, 0, 4, 9, 15, 6, 13, 1, 12, 13, 2, 8, 13, 6, 0, 7, 6, 6, 4, 8, 1, 4, 13, 8, 12, 5, 14, 3, 4, 8, 14, 11, 9, 4, 7, 5, 15, 9, 10, 9, 5, 9, 8, 13, 5, 13, 8, 15, 4, 1, 13>>))
    @@
    (("(None, 4)"
        :> <<15, 14, 12, 13, 3, 7, 7, 3, 3, 2, 10, 7, 10, 2, 7, 10, 13, 12, 13, 13, 3, 12, 11, 10, 2, 8, 6, 13, 14, 12, 2, 13, 11, 12, 13, 15, 8, 13, 8, 10, 9, 13, 9, 5, 8, 15, 0, 12, 10, 8, 9, 11, 1, 2, 0, 3, 9, 1, 3, 6, 13, 2, 15, 10>>)
    @@
    ("(None, 4)0af7ba66f9a27ed0e229221aada0cc88d5d6fd58f46f72eb626bd37b8e94efc8"
        :> <<12, 15, 15, 10, 5, 1, 2, 15, 4, 2, 7, 10, 14, 10, 7, 3, 6, 13, 5, 6, 9, 6, 12, 15, 13, 2, 2, 3, 0, 14, 10, 3, 11, 15, 0, 13, 7, 3, 5, 7, 11, 5, 10, 8, 9, 11, 7, 13, 0, 9, 8, 8, 1, 0, 13, 3, 0, 6, 13, 2, 9, 3, 4, 2>>))))
    @@
    ((("(None, 4)0af7ba66f9a27ed0e229221aada0cc88d5d6fd58f46f72eb626bd37b8e94efc80af7ba66f9a27ed0e229221aada0cc88d5d6fd58f46f72eb626bd37b8e94efc8"
        :> <<15, 1, 11, 5, 9, 10, 15, 8, 10, 0, 0, 15, 8, 9, 13, 15, 9, 8, 1, 13, 0, 10, 14, 15, 1, 15, 5, 3, 9, 3, 0, 0, 12, 15, 2, 2, 1, 0, 10, 8, 0, 13, 11, 12, 11, 0, 4, 15, 7, 8, 14, 4, 8, 11, 5, 4, 4, 12, 4, 4, 9, 2, 0, 2>>)
    @@
    (("(None, 4)0af7ba66f9a27ed0e229221aada0cc88d5d6fd58f46f72eb626bd37b8e94efc80af7ba66f9a27ed0e229221aada0cc88d5d6fd58f46f72eb626bd37b8e94efc80af7ba66f9a27ed0e229221aada0cc88d5d6fd58f46f72eb626bd37b8e94efc8"
        :> <<10, 15, 14, 11, 9, 14, 7, 2, 1, 0, 1, 11, 4, 1, 3, 3, 2, 4, 8, 9, 10, 13, 5, 4, 9, 8, 14, 5, 2, 0, 5, 14, 10, 10, 11, 13, 8, 0, 9, 6, 5, 6, 7, 11, 10, 3, 11, 9, 4, 3, 9, 3, 14, 4, 1, 2, 10, 4, 9, 8, 4, 0, 12, 3>>)
    @@
    ("(None, 4)0af7ba66f9a27ed0e229221aada0cc88d5d6fd58f46f72eb626bd37b8e94efc80af7ba66f9a27ed0e229221aada0cc88d5d6fd58f46f72eb626bd37b8e94efc80f953d12a939fe4ef354fff77564841627136a6bf3667b256c4a5cb6768788da"
        :> <<6, 3, 8, 2, 12, 4, 14, 10, 7, 11, 4, 3, 12, 3, 2, 7, 2, 7, 5, 0, 4, 13, 15, 11, 3, 8, 2, 14, 7, 6, 15, 10, 2, 14, 7, 8, 10, 4, 14, 13, 5, 11, 11, 6, 14, 9, 7, 14, 5, 6, 13, 15, 14, 6, 14, 9, 8, 6, 2, 7, 5, 1, 11, 7>>)))
    @@
    ((("(None, 4)0af7ba66f9a27ed0e229221aada0cc88d5d6fd58f46f72eb626bd37b8e94efc80af7ba66f9a27ed0e229221aada0cc88d5d6fd58f46f72eb626bd37b8e94efc8140fc148a380d69b8753d296355d450a4c606dfa652482747ab694cd6ac23972"
        :> <<7, 0, 12, 0, 9, 9, 6, 3, 15, 1, 1, 10, 6, 0, 4, 9, 2, 7, 14, 3, 5, 15, 12, 14, 8, 14, 11, 0, 11, 0, 3, 5, 7, 1, 11, 11, 6, 9, 13, 6, 11, 4, 0, 4, 10, 7, 1, 13, 12, 4, 8, 14, 3, 3, 8, 4, 0, 9, 1, 15, 1, 9, 13, 15>>)
    @@
    ("(None, 4)0af7ba66f9a27ed0e229221aada0cc88d5d6fd58f46f72eb626bd37b8e94efc80af7ba66f9a27ed0e229221aada0cc88d5d6fd58f46f72eb626bd37b8e94efc87d3c95f98bd2b66af7c1d3a16cad13e01562539e02afc9695b86a5416092645f"
        :> <<5, 7, 5, 1, 9, 4, 5, 11, 6, 2, 2, 12, 8, 15, 5, 14, 15, 6, 1, 4, 2, 5, 0, 13, 4, 2, 2, 0, 10, 13, 14, 15, 7, 5, 4, 2, 10, 10, 2, 6, 11, 15, 2, 3, 11, 8, 0, 12, 11, 14, 10, 12, 12, 5, 11, 15, 15, 6, 13, 4, 14, 10, 8, 9>>))
    @@
    (("(None, 4)0af7ba66f9a27ed0e229221aada0cc88d5d6fd58f46f72eb626bd37b8e94efc80f953d12a939fe4ef354fff77564841627136a6bf3667b256c4a5cb6768788da"
        :> <<8, 9, 9, 3, 10, 14, 5, 10, 10, 3, 12, 13, 0, 1, 14, 3, 10, 7, 4, 15, 14, 9, 4, 9, 15, 6, 14, 1, 3, 12, 6, 14, 10, 12, 15, 9, 0, 1, 0, 7, 1, 8, 4, 14, 3, 10, 10, 5, 13, 6, 13, 6, 10, 14, 15, 3, 14, 8, 6, 6, 4, 11, 8, 8>>)
    @@
    ("(None, 4)0af7ba66f9a27ed0e229221aada0cc88d5d6fd58f46f72eb626bd37b8e94efc80f953d12a939fe4ef354fff77564841627136a6bf3667b256c4a5cb6768788da0af7ba66f9a27ed0e229221aada0cc88d5d6fd58f46f72eb626bd37b8e94efc8"
        :> <<3, 0, 5, 5, 4, 1, 12, 11, 3, 9, 6, 9, 5, 11, 3, 1, 7, 2, 7, 7, 13, 10, 14, 4, 4, 12, 5, 11, 11, 5, 14, 5, 14, 2, 3, 13, 6, 4, 11, 3, 1, 14, 5, 10, 6, 2, 6, 2, 15, 0, 6, 7, 9, 10, 15, 13, 5, 3, 11, 9, 14, 11, 9, 1>>))))))))
    @@
    ((((((("(None, 4)0af7ba66f9a27ed0e229221aada0cc88d5d6fd58f46f72eb626bd37b8e94efc80f953d12a939fe4ef354fff77564841627136a6bf3667b256c4a5cb6768788da0f953d12a939fe4ef354fff77564841627136a6bf3667b256c4a5cb6768788da"
        :> <<1, 3, 9, 0, 3, 6, 8, 11, 0, 6, 3, 6, 7, 9, 11, 6, 14, 7, 2, 0, 4, 1, 12, 10, 4, 2, 8, 9, 14, 11, 13, 0, 7, 9, 3, 9, 12, 3, 9, 15, 0, 7, 0, 9, 5, 9, 3, 12, 7, 0, 1, 8, 14, 10, 8, 12, 7, 5, 10, 1, 7, 1, 1, 5>>)
    @@
    (("(None, 4)0af7ba66f9a27ed0e229221aada0cc88d5d6fd58f46f72eb626bd37b8e94efc80f953d12a939fe4ef354fff77564841627136a6bf3667b256c4a5cb6768788da140fc148a380d69b8753d296355d450a4c606dfa652482747ab694cd6ac23972"
        :> <<0, 4, 14, 0, 1, 3, 11, 5, 1, 2, 9, 12, 3, 5, 6, 3, 0, 15, 13, 7, 4, 0, 5, 0, 5, 12, 11, 13, 11, 5, 10, 9, 15, 4, 3, 1, 11, 4, 13, 4, 13, 14, 6, 12, 3, 6, 13, 14, 3, 10, 15, 4, 11, 3, 14, 9, 6, 15, 0, 14, 4, 10, 12, 11>>)
    @@
    ("(None, 4)0af7ba66f9a27ed0e229221aada0cc88d5d6fd58f46f72eb626bd37b8e94efc80f953d12a939fe4ef354fff77564841627136a6bf3667b256c4a5cb6768788da7d3c95f98bd2b66af7c1d3a16cad13e01562539e02afc9695b86a5416092645f"
        :> <<3, 3, 6, 10, 0, 1, 7, 12, 0, 8, 14, 1, 10, 5, 1, 10, 12, 10, 10, 11, 5, 1, 14, 1, 2, 3, 7, 0, 0, 1, 0, 9, 3, 15, 9, 11, 15, 7, 2, 10, 15, 12, 7, 5, 0, 8, 7, 1, 7, 11, 15, 2, 5, 14, 7, 11, 6, 10, 2, 14, 10, 11, 11, 15>>)))
    @@
    (("(None, 4)0af7ba66f9a27ed0e229221aada0cc88d5d6fd58f46f72eb626bd37b8e94efc8140fc148a380d69b8753d296355d450a4c606dfa652482747ab694cd6ac23972"
        :> <<0, 13, 10, 15, 15, 14, 11, 1, 7, 0, 3, 10, 8, 14, 1, 12, 1, 10, 3, 1, 3, 0, 9, 6, 14, 8, 15, 12, 4, 14, 5, 2, 14, 1, 0, 6, 8, 2, 12, 11, 11, 7, 4, 12, 9, 6, 2, 5, 10, 14, 7, 14, 6, 9, 1, 6, 8, 8, 14, 12, 5, 11, 6, 12>>)
    @@
    (("(None, 4)0af7ba66f9a27ed0e229221aada0cc88d5d6fd58f46f72eb626bd37b8e94efc8140fc148a380d69b8753d296355d450a4c606dfa652482747ab694cd6ac239720af7ba66f9a27ed0e229221aada0cc88d5d6fd58f46f72eb626bd37b8e94efc8"
        :> <<2, 12, 1, 13, 0, 12, 10, 6, 5, 0, 0, 7, 6, 7, 6, 2, 10, 8, 12, 6, 13, 1, 9, 14, 4, 14, 11, 3, 14, 0, 14, 6, 14, 10, 11, 11, 11, 9, 8, 12, 1, 9, 9, 3, 2, 3, 7, 11, 12, 8, 14, 15, 7, 4, 6, 9, 10, 2, 5, 14, 12, 11, 15, 8>>)
    @@
    ("(None, 4)0af7ba66f9a27ed0e229221aada0cc88d5d6fd58f46f72eb626bd37b8e94efc8140fc148a380d69b8753d296355d450a4c606dfa652482747ab694cd6ac239720f953d12a939fe4ef354fff77564841627136a6bf3667b256c4a5cb6768788da"
        :> <<6, 13, 11, 11, 5, 15, 9, 11, 2, 0, 3, 14, 4, 8, 3, 9, 8, 10, 8, 14, 4, 8, 12, 2, 15, 4, 2, 8, 10, 4, 5, 14, 13, 8, 9, 1, 7, 11, 12, 4, 6, 11, 14, 15, 6, 0, 4, 12, 3, 1, 12, 9, 12, 5, 4, 10, 11, 5, 13, 15, 6, 3, 10, 2>>))))
    @@
    ((("(None, 4)0af7ba66f9a27ed0e229221aada0cc88d5d6fd58f46f72eb626bd37b8e94efc8140fc148a380d69b8753d296355d450a4c606dfa652482747ab694cd6ac23972140fc148a380d69b8753d296355d450a4c606dfa652482747ab694cd6ac23972"
        :> <<4, 4, 9, 9, 8, 12, 5, 15, 12, 6, 2, 2, 15, 2, 15, 10, 7, 5, 10, 10, 15, 14, 8, 2, 8, 8, 4, 10, 12, 4, 0, 7, 14, 7, 7, 15, 15, 7, 11, 5, 1, 8, 4, 13, 6, 5, 12, 15, 7, 5, 8, 12, 0, 2, 4, 11, 1, 2, 14, 12, 10, 0, 6, 8>>)
    @@
    (("(None, 4)0af7ba66f9a27ed0e229221aada0cc88d5d6fd58f46f72eb626bd37b8e94efc8140fc148a380d69b8753d296355d450a4c606dfa652482747ab694cd6ac239727d3c95f98bd2b66af7c1d3a16cad13e01562539e02afc9695b86a5416092645f"
        :> <<5, 12, 8, 12, 6, 13, 6, 4, 10, 4, 3, 13, 2, 3, 0, 11, 8, 1, 11, 8, 14, 6, 1, 4, 1, 0, 1, 12, 1, 14, 3, 14, 11, 15, 8, 3, 6, 12, 4, 2, 0, 7, 13, 6, 4, 13, 10, 14, 9, 3, 13, 8, 8, 13, 11, 6, 12, 5, 5, 8, 15, 13, 11, 15>>)
    @@
    ("(None, 4)0af7ba66f9a27ed0e229221aada0cc88d5d6fd58f46f72eb626bd37b8e94efc87d3c95f98bd2b66af7c1d3a16cad13e01562539e02afc9695b86a5416092645f"
        :> <<0, 14, 3, 12, 11, 7, 15, 8, 11, 3, 4, 4, 5, 6, 9, 12, 12, 3, 15, 14, 0, 15, 11, 11, 1, 6, 1, 13, 15, 11, 7, 11, 9, 3, 5, 10, 5, 10, 8, 0, 10, 15, 4, 11, 9, 14, 15, 5, 14, 15, 5, 5, 7, 2, 7, 1, 14, 2, 10, 12, 0, 12, 11, 1>>)))
    @@
    ((("(None, 4)0af7ba66f9a27ed0e229221aada0cc88d5d6fd58f46f72eb626bd37b8e94efc87d3c95f98bd2b66af7c1d3a16cad13e01562539e02afc9695b86a5416092645f0af7ba66f9a27ed0e229221aada0cc88d5d6fd58f46f72eb626bd37b8e94efc8"
        :> <<3, 1, 8, 4, 15, 1, 10, 1, 12, 1, 7, 5, 12, 6, 10, 8, 10, 9, 3, 12, 2, 6, 5, 6, 2, 15, 9, 12, 3, 5, 15, 3, 10, 15, 14, 14, 4, 0, 4, 3, 12, 7, 5, 15, 12, 14, 10, 6, 13, 11, 12, 7, 0, 7, 1, 0, 5, 2, 2, 14, 12, 4, 14, 10>>)
    @@
    ("(None, 4)0af7ba66f9a27ed0e229221aada0cc88d5d6fd58f46f72eb626bd37b8e94efc87d3c95f98bd2b66af7c1d3a16cad13e01562539e02afc9695b86a5416092645f0f953d12a939fe4ef354fff77564841627136a6bf3667b256c4a5cb6768788da"
        :> <<7, 12, 15, 3, 6, 3, 7, 12, 13, 4, 6, 5, 6, 15, 13, 8, 9, 12, 5, 9, 8, 10, 14, 6, 10, 6, 12, 13, 4, 13, 0, 8, 6, 8, 1, 13, 0, 11, 4, 4, 15, 8, 5, 4, 14, 4, 15, 11, 9, 9, 14, 4, 7, 11, 14, 11, 10, 8, 15, 10, 3, 0, 12, 14>>))
    @@
    (("(None, 4)0af7ba66f9a27ed0e229221aada0cc88d5d6fd58f46f72eb626bd37b8e94efc87d3c95f98bd2b66af7c1d3a16cad13e01562539e02afc9695b86a5416092645f140fc148a380d69b8753d296355d450a4c606dfa652482747ab694cd6ac23972"
        :> <<7, 3, 6, 5, 2, 9, 7, 6, 3, 13, 11, 14, 12, 5, 4, 13, 4, 3, 5, 5, 11, 1, 0, 9, 7, 14, 12, 12, 7, 15, 3, 11, 3, 4, 7, 6, 4, 1, 2, 2, 2, 15, 5, 8, 1, 6, 3, 11, 0, 7, 2, 6, 12, 13, 3, 9, 11, 15, 9, 12, 15, 5, 14, 0>>)
    @@
    ("(None, 4)0af7ba66f9a27ed0e229221aada0cc88d5d6fd58f46f72eb626bd37b8e94efc87d3c95f98bd2b66af7c1d3a16cad13e01562539e02afc9695b86a5416092645f7d3c95f98bd2b66af7c1d3a16cad13e01562539e02afc9695b86a5416092645f"
        :> <<11, 14, 6, 9, 4, 3, 15, 0, 5, 1, 6, 8, 2, 6, 8, 9, 4, 0, 15, 9, 13, 2, 11, 13, 15, 9, 4, 1, 6, 1, 6, 11, 7, 15, 4, 8, 13, 5, 6, 6, 5, 7, 12, 3, 7, 7, 1, 6, 15, 3, 3, 0, 11, 14, 4, 12, 8, 13, 15, 2, 0, 11, 0, 7>>)))))
    @@
    (((("(None, 4)0f953d12a939fe4ef354fff77564841627136a6bf3667b256c4a5cb6768788da"
        :> <<7, 15, 15, 4, 9, 8, 9, 4, 12, 13, 2, 4, 1, 0, 2, 6, 5, 12, 12, 13, 10, 15, 0, 14, 14, 13, 6, 5, 6, 14, 15, 11, 4, 13, 2, 9, 7, 0, 0, 2, 7, 11, 0, 6, 15, 11, 11, 6, 14, 15, 1, 11, 11, 14, 4, 10, 1, 13, 8, 2, 14, 13, 14, 7>>)
    @@
    (("(None, 4)0f953d12a939fe4ef354fff77564841627136a6bf3667b256c4a5cb6768788da0af7ba66f9a27ed0e229221aada0cc88d5d6fd58f46f72eb626bd37b8e94efc8"
        :> <<7, 5, 11, 3, 7, 3, 13, 3, 1, 8, 7, 1, 15, 13, 8, 2, 10, 14, 7, 10, 8, 0, 8, 9, 5, 13, 13, 11, 0, 12, 6, 7, 5, 6, 6, 8, 12, 9, 13, 9, 0, 2, 14, 5, 15, 5, 4, 3, 2, 8, 10, 9, 7, 8, 6, 1, 5, 6, 3, 0, 3, 10, 15, 11>>)
    @@
    ("(None, 4)0f953d12a939fe4ef354fff77564841627136a6bf3667b256c4a5cb6768788da0af7ba66f9a27ed0e229221aada0cc88d5d6fd58f46f72eb626bd37b8e94efc80af7ba66f9a27ed0e229221aada0cc88d5d6fd58f46f72eb626bd37b8e94efc8"
        :> <<14, 10, 6, 12, 1, 8, 10, 7, 3, 1, 14, 8, 9, 9, 0, 3, 1, 14, 10, 5, 13, 14, 8, 7, 6, 11, 10, 6, 13, 15, 6, 3, 8, 9, 5, 2, 5, 1, 8, 0, 12, 14, 12, 4, 4, 3, 13, 9, 6, 14, 15, 8, 5, 0, 7, 5, 2, 9, 6, 3, 14, 11, 10, 2>>)))
    @@
    (("(None, 4)0f953d12a939fe4ef354fff77564841627136a6bf3667b256c4a5cb6768788da0af7ba66f9a27ed0e229221aada0cc88d5d6fd58f46f72eb626bd37b8e94efc80f953d12a939fe4ef354fff77564841627136a6bf3667b256c4a5cb6768788da"
        :> <<13, 11, 14, 11, 7, 12, 14, 4, 13, 3, 0, 7, 15, 8, 15, 13, 0, 2, 10, 3, 9, 14, 11, 7, 6, 14, 5, 0, 5, 11, 11, 14, 5, 2, 5, 4, 14, 9, 5, 6, 12, 7, 1, 14, 10, 4, 7, 9, 6, 0, 10, 8, 12, 0, 7, 0, 5, 1, 15, 2, 10, 1, 1, 8>>)
    @@
    (("(None, 4)0f953d12a939fe4ef354fff77564841627136a6bf3667b256c4a5cb6768788da0af7ba66f9a27ed0e229221aada0cc88d5d6fd58f46f72eb626bd37b8e94efc8140fc148a380d69b8753d296355d450a4c606dfa652482747ab694cd6ac23972"
        :> <<3, 14, 13, 0, 5, 7, 7, 1, 11, 5, 15, 7, 2, 2, 0, 13, 1, 11, 6, 15, 12, 2, 10, 14, 12, 10, 6, 2, 6, 13, 3, 8, 7, 15, 3, 14, 12, 0, 3, 11, 4, 7, 9, 4, 3, 1, 2, 15, 6, 1, 9, 5, 11, 11, 8, 14, 2, 2, 3, 10, 7, 2, 11, 9>>)
    @@
    ("(None, 4)0f953d12a939fe4ef354fff77564841627136a6bf3667b256c4a5cb6768788da0af7ba66f9a27ed0e229221aada0cc88d5d6fd58f46f72eb626bd37b8e94efc87d3c95f98bd2b66af7c1d3a16cad13e01562539e02afc9695b86a5416092645f"
        :> <<10, 12, 3, 13, 8, 13, 6, 2, 10, 15, 15, 1, 12, 12, 14, 8, 12, 13, 3, 3, 15, 8, 3, 12, 15, 5, 13, 10, 2, 7, 13, 13, 7, 6, 1, 4, 7, 13, 5, 6, 9, 6, 4, 2, 9, 7, 5, 11, 15, 8, 8, 14, 13, 10, 7, 6, 8, 10, 5, 8, 1, 2, 15, 2>>))))
    @@
    ((("(None, 4)0f953d12a939fe4ef354fff77564841627136a6bf3667b256c4a5cb6768788da0f953d12a939fe4ef354fff77564841627136a6bf3667b256c4a5cb6768788da"
        :> <<9, 10, 3, 6, 10, 7, 8, 12, 8, 11, 3, 3, 2, 7, 4, 2, 9, 14, 7, 6, 8, 15, 11, 10, 5, 8, 2, 7, 9, 15, 0, 8, 2, 4, 4, 14, 14, 4, 9, 11, 5, 4, 8, 13, 3, 11, 0, 2, 8, 6, 5, 15, 1, 3, 12, 5, 9, 3, 12, 6, 13, 5, 11, 15>>)
    @@
    (("(None, 4)0f953d12a939fe4ef354fff77564841627136a6bf3667b256c4a5cb6768788da0f953d12a939fe4ef354fff77564841627136a6bf3667b256c4a5cb6768788da0af7ba66f9a27ed0e229221aada0cc88d5d6fd58f46f72eb626bd37b8e94efc8"
        :> <<14, 7, 10, 14, 12, 1, 11, 14, 0, 4, 7, 0, 13, 10, 6, 6, 0, 15, 3, 9, 6, 2, 12, 11, 3, 4, 4, 13, 8, 9, 12, 15, 10, 12, 1, 10, 8, 7, 12, 14, 12, 8, 5, 4, 6, 10, 2, 13, 0, 7, 9, 1, 6, 0, 0, 5, 8, 8, 13, 3, 12, 15, 10, 3>>)
    @@
    ("(None, 4)0f953d12a939fe4ef354fff77564841627136a6bf3667b256c4a5cb6768788da0f953d12a939fe4ef354fff77564841627136a6bf3667b256c4a5cb6768788da0f953d12a939fe4ef354fff77564841627136a6bf3667b256c4a5cb6768788da"
        :> <<4, 11, 15, 6, 2, 4, 7, 7, 0, 11, 11, 9, 1, 14, 4, 1, 1, 1, 2, 14, 9, 9, 7, 13, 14, 12, 13, 12, 8, 8, 15, 2, 5, 3, 7, 7, 12, 3, 9, 15, 15, 1, 13, 12, 15, 0, 4, 3, 8, 13, 0, 8, 9, 3, 12, 2, 4, 0, 1, 11, 13, 8, 6, 3>>)))
    @@
    ((("(None, 4)0f953d12a939fe4ef354fff77564841627136a6bf3667b256c4a5cb6768788da0f953d12a939fe4ef354fff77564841627136a6bf3667b256c4a5cb6768788da140fc148a380d69b8753d296355d450a4c606dfa652482747ab694cd6ac23972"
        :> <<14, 9, 7, 9, 3, 5, 5, 12, 6, 13, 15, 14, 11, 9, 9, 5, 7, 6, 7, 14, 4, 3, 2, 7, 9, 11, 15, 0, 9, 11, 7, 1, 0, 11, 14, 10, 2, 11, 13, 5, 13, 9, 14, 2, 9, 12, 2, 12, 12, 4, 2, 14, 0, 14, 0, 10, 4, 2, 0, 15, 4, 4, 4, 8>>)
    @@
    ("(None, 4)0f953d12a939fe4ef354fff77564841627136a6bf3667b256c4a5cb6768788da0f953d12a939fe4ef354fff77564841627136a6bf3667b256c4a5cb6768788da7d3c95f98bd2b66af7c1d3a16cad13e01562539e02afc9695b86a5416092645f"
        :> <<6, 6, 7, 7, 11, 3, 12, 8, 8, 4, 15, 1, 11, 11, 8, 13, 7, 2, 10, 6, 5, 6, 5, 7, 3, 0, 14, 4, 6, 10, 10, 4, 3, 11, 7, 8, 12, 6, 3, 1, 4, 5, 14, 3, 3, 8, 3, 13, 5, 1, 13, 13, 13, 1, 8, 6, 8, 4, 3, 15, 15, 8, 3, 11>>))
    @@
    (("(None, 4)0f953d12a939fe4ef354fff77564841627136a6bf3667b256c4a5cb6768788da140fc148a380d69b8753d296355d450a4c606dfa652482747ab694cd6ac23972"
        :> <<13, 2, 12, 14, 11, 10, 15, 12, 5, 6, 5, 9, 14, 13, 5, 15, 9, 11, 13, 13, 5, 13, 15, 4, 2, 11, 3, 7, 11, 13, 1, 13, 4, 5, 7, 1, 5, 4, 1, 1, 1, 8, 11, 13, 14, 0, 12, 3, 15, 3, 7, 9, 8, 1, 7, 12, 9, 14, 7, 5, 14, 9, 5, 13>>)
    @@
    ("(None, 4)0f953d12a939fe4ef354fff77564841627136a6bf3667b256c4a5cb6768788da140fc148a380d69b8753d296355d450a4c606dfa652482747ab694cd6ac239720af7ba66f9a27ed0e229221aada0cc88d5d6fd58f46f72eb626bd37b8e94efc8"
        :> <<7, 2, 3, 12, 12, 15, 2, 9, 7, 1, 10, 13, 8, 4, 3, 8, 3, 2, 1, 0, 2, 10, 14, 2, 0, 9, 12, 14, 3, 9, 12, 1, 10, 5, 4, 15, 7, 3, 4, 13, 15, 2, 11, 1, 6, 5, 3, 9, 4, 6, 15, 11, 12, 13, 3, 12, 8, 11, 14, 8, 0, 12, 14, 13>>))))))
    @@
    ((((("(None, 4)0f953d12a939fe4ef354fff77564841627136a6bf3667b256c4a5cb6768788da140fc148a380d69b8753d296355d450a4c606dfa652482747ab694cd6ac239720f953d12a939fe4ef354fff77564841627136a6bf3667b256c4a5cb6768788da"
        :> <<5, 15, 8, 11, 12, 9, 0, 2, 2, 2, 11, 14, 7, 5, 7, 11, 7, 1, 14, 7, 12, 11, 10, 14, 9, 14, 3, 2, 14, 7, 5, 7, 15, 2, 14, 13, 3, 5, 4, 13, 6, 15, 13, 8, 1, 4, 0, 15, 11, 11, 10, 13, 11, 0, 8, 1, 3, 2, 3, 12, 2, 14, 13, 0>>)
    @@
    (("(None, 4)0f953d12a939fe4ef354fff77564841627136a6bf3667b256c4a5cb6768788da140fc148a380d69b8753d296355d450a4c606dfa652482747ab694cd6ac23972140fc148a380d69b8753d296355d450a4c606dfa652482747ab694cd6ac23972"
        :> <<10, 11, 3, 9, 10, 14, 13, 14, 11, 8, 13, 13, 8, 2, 10, 14, 3, 0, 5, 2, 0, 7, 10, 13, 1, 13, 5, 10, 8, 10, 6, 6, 7, 5, 12, 11, 1, 15, 3, 9, 10, 8, 8, 15, 13, 8, 11, 2, 4, 6, 14, 8, 5, 7, 9, 7, 2, 14, 4, 1, 9, 15, 14, 7>>)
    @@
    ("(None, 4)0f953d12a939fe4ef354fff77564841627136a6bf3667b256c4a5cb6768788da140fc148a380d69b8753d296355d450a4c606dfa652482747ab694cd6ac239727d3c95f98bd2b66af7c1d3a16cad13e01562539e02afc9695b86a5416092645f"
        :> <<0, 10, 12, 4, 9, 11, 10, 8, 15, 2, 14, 1, 3, 8, 7, 0, 3, 12, 11, 8, 0, 7, 15, 1, 2, 9, 9, 13, 11, 9, 8, 14, 14, 8, 6, 13, 0, 11, 13, 12, 4, 11, 3, 6, 3, 7, 9, 4, 5, 4, 2, 10, 4, 0, 12, 7, 3, 3, 15, 8, 13, 4, 12, 8>>)))
    @@
    (("(None, 4)0f953d12a939fe4ef354fff77564841627136a6bf3667b256c4a5cb6768788da7d3c95f98bd2b66af7c1d3a16cad13e01562539e02afc9695b86a5416092645f"
        :> <<10, 3, 15, 4, 14, 15, 13, 7, 11, 14, 10, 14, 7, 14, 12, 8, 1, 5, 13, 7, 4, 11, 8, 7, 1, 5, 2, 8, 7, 11, 8, 12, 13, 12, 5, 6, 11, 8, 1, 15, 10, 1, 6, 7, 1, 14, 0, 7, 2, 3, 13, 14, 3, 13, 12, 2, 4, 7, 4, 8, 6, 11, 14, 4>>)
    @@
    (("(None, 4)0f953d12a939fe4ef354fff77564841627136a6bf3667b256c4a5cb6768788da7d3c95f98bd2b66af7c1d3a16cad13e01562539e02afc9695b86a5416092645f0af7ba66f9a27ed0e229221aada0cc88d5d6fd58f46f72eb626bd37b8e94efc8"
        :> <<10, 10, 7, 8, 4, 9, 8, 3, 5, 7, 3, 0, 6, 2, 8, 11, 2, 6, 4, 14, 15, 12, 13, 10, 13, 11, 10, 7, 11, 9, 15, 12, 13, 8, 7, 12, 14, 9, 15, 5, 1, 2, 8, 12, 0, 15, 0, 5, 14, 3, 11, 1, 8, 10, 6, 10, 6, 13, 14, 1, 1, 1, 15, 10>>)
    @@
    ("(None, 4)0f953d12a939fe4ef354fff77564841627136a6bf3667b256c4a5cb6768788da7d3c95f98bd2b66af7c1d3a16cad13e01562539e02afc9695b86a5416092645f0f953d12a939fe4ef354fff77564841627136a6bf3667b256c4a5cb6768788da"
        :> <<3, 4, 4, 1, 4, 14, 3, 10, 3, 8, 5, 9, 4, 2, 13, 3, 2, 13, 11, 12, 13, 12, 12, 7, 8, 1, 0, 10, 3, 7, 9, 14, 3, 14, 4, 3, 7, 15, 13, 13, 0, 6, 14, 8, 9, 15, 10, 0, 12, 9, 12, 8, 5, 4, 9, 9, 4, 1, 14, 0, 4, 8, 9, 10>>))))
    @@
    ((("(None, 4)0f953d12a939fe4ef354fff77564841627136a6bf3667b256c4a5cb6768788da7d3c95f98bd2b66af7c1d3a16cad13e01562539e02afc9695b86a5416092645f140fc148a380d69b8753d296355d450a4c606dfa652482747ab694cd6ac23972"
        :> <<11, 1, 9, 5, 1, 2, 0, 7, 5, 14, 9, 8, 12, 11, 14, 7, 9, 12, 10, 15, 9, 7, 10, 4, 3, 2, 15, 4, 1, 1, 5, 15, 11, 3, 10, 12, 4, 5, 7, 12, 12, 11, 0, 11, 15, 4, 14, 11, 11, 9, 8, 8, 10, 8, 7, 10, 7, 8, 3, 2, 2, 9, 15, 9>>)
    @@
    (("(None, 4)0f953d12a939fe4ef354fff77564841627136a6bf3667b256c4a5cb6768788da7d3c95f98bd2b66af7c1d3a16cad13e01562539e02afc9695b86a5416092645f7d3c95f98bd2b66af7c1d3a16cad13e01562539e02afc9695b86a5416092645f"
        :> <<3, 9, 15, 15, 1, 10, 1, 3, 4, 14, 6, 13, 5, 7, 5, 0, 7, 5, 3, 5, 5, 8, 7, 15, 14, 11, 1, 12, 2, 4, 5, 14, 2, 14, 15, 10, 7, 4, 1, 4, 7, 5, 13, 6, 5, 11, 0, 3, 10, 9, 8, 6, 14, 7, 4, 2, 5, 3, 15, 8, 5, 8, 3, 3>>)
    @@
    ("(None, 4)140fc148a380d69b8753d296355d450a4c606dfa652482747ab694cd6ac23972"
        :> <<14, 14, 1, 4, 6, 6, 4, 11, 0, 1, 1, 7, 12, 9, 13, 15, 8, 5, 9, 4, 2, 15, 4, 1, 6, 8, 15, 8, 4, 15, 12, 13, 6, 14, 14, 4, 1, 5, 5, 10, 5, 14, 7, 15, 10, 2, 2, 15, 0, 4, 7, 9, 14, 11, 1, 4, 2, 7, 3, 7, 15, 0, 8, 14>>)))
    @@
    ((("(None, 4)140fc148a380d69b8753d296355d450a4c606dfa652482747ab694cd6ac239720af7ba66f9a27ed0e229221aada0cc88d5d6fd58f46f72eb626bd37b8e94efc8"
        :> <<10, 10, 3, 7, 3, 0, 12, 7, 4, 2, 14, 6, 5, 12, 1, 4, 14, 0, 2, 15, 5, 11, 12, 15, 0, 8, 15, 11, 13, 2, 8, 4, 14, 14, 11, 1, 5, 10, 9, 3, 5, 10, 15, 7, 11, 11, 3, 2, 12, 2, 4, 1, 3, 7, 5, 9, 14, 15, 7, 13, 4, 6, 11, 5>>)
    @@
    ("(None, 4)140fc148a380d69b8753d296355d450a4c606dfa652482747ab694cd6ac239720af7ba66f9a27ed0e229221aada0cc88d5d6fd58f46f72eb626bd37b8e94efc80af7ba66f9a27ed0e229221aada0cc88d5d6fd58f46f72eb626bd37b8e94efc8"
        :> <<4, 4, 0, 10, 6, 15, 8, 5, 11, 10, 4, 13, 13, 4, 3, 1, 11, 7, 15, 4, 12, 15, 1, 9, 2, 9, 15, 14, 4, 8, 9, 2, 9, 15, 12, 15, 14, 4, 2, 12, 5, 14, 0, 11, 15, 5, 1, 0, 13, 1, 3, 4, 5, 9, 8, 8, 4, 3, 15, 3, 1, 12, 2, 10>>))
    @@
    (("(None, 4)140fc148a380d69b8753d296355d450a4c606dfa652482747ab694cd6ac239720af7ba66f9a27ed0e229221aada0cc88d5d6fd58f46f72eb626bd37b8e94efc80f953d12a939fe4ef354fff77564841627136a6bf3667b256c4a5cb6768788da"
        :> <<1, 8, 10, 8, 0, 13, 8, 10, 2, 7, 3, 1, 10, 7, 0, 5, 0, 8, 2, 7, 14, 6, 11, 2, 0, 2, 5, 6, 11, 7, 13, 4, 12, 7, 15, 10, 7, 13, 15, 7, 0, 10, 8, 14, 10, 10, 1, 15, 8, 4, 15, 12, 15, 10, 9, 12, 13, 10, 7, 2, 8, 5, 4, 8>>)
    @@
    ("(None, 4)140fc148a380d69b8753d296355d450a4c606dfa652482747ab694cd6ac239720af7ba66f9a27ed0e229221aada0cc88d5d6fd58f46f72eb626bd37b8e94efc8140fc148a380d69b8753d296355d450a4c606dfa652482747ab694cd6ac23972"
        :> <<12, 13, 10, 1, 1, 7, 11, 2, 6, 0, 5, 8, 15, 15, 2, 12, 10, 9, 13, 2, 5, 1, 13, 5, 2, 13, 0, 4, 14, 0, 13, 5, 1, 12, 9, 0, 1, 3, 7, 13, 1, 1, 8, 1, 1, 15, 5, 4, 5, 2, 4, 14, 3, 14, 15, 9, 6, 3, 11, 14, 13, 8, 9, 8>>)))))
    @@
    (((("(None, 4)140fc148a380d69b8753d296355d450a4c606dfa652482747ab694cd6ac239720af7ba66f9a27ed0e229221aada0cc88d5d6fd58f46f72eb626bd37b8e94efc87d3c95f98bd2b66af7c1d3a16cad13e01562539e02afc9695b86a5416092645f"
        :> <<0, 10, 11, 13, 15, 13, 5, 2, 2, 15, 13, 11, 6, 14, 11, 4, 3, 13, 6, 0, 11, 6, 11, 1, 14, 13, 5, 0, 1, 12, 3, 3, 0, 10, 7, 8, 1, 11, 9, 0, 1, 5, 10, 13, 10, 4, 7, 14, 6, 2, 9, 0, 15, 14, 6, 9, 10, 12, 2, 8, 9, 13, 7, 7>>)
    @@
    (("(None, 4)140fc148a380d69b8753d296355d450a4c606dfa652482747ab694cd6ac239720f953d12a939fe4ef354fff77564841627136a6bf3667b256c4a5cb6768788da"
        :> <<6, 5, 9, 5, 15, 15, 5, 6, 0, 3, 7, 10, 0, 8, 12, 11, 14, 8, 5, 13, 8, 8, 7, 4, 12, 5, 4, 7, 8, 14, 14, 15, 15, 4, 12, 2, 14, 6, 12, 12, 7, 15, 11, 8, 3, 6, 9, 10, 6, 0, 4, 14, 2, 15, 14, 13, 13, 7, 12, 14, 4, 14, 0, 6>>)
    @@
    ("(None, 4)140fc148a380d69b8753d296355d450a4c606dfa652482747ab694cd6ac239720f953d12a939fe4ef354fff77564841627136a6bf3667b256c4a5cb6768788da0af7ba66f9a27ed0e229221aada0cc88d5d6fd58f46f72eb626bd37b8e94efc8"
        :> <<12, 3, 9, 3, 15, 9, 4, 4, 8, 4, 7, 5, 12, 7, 15, 4, 4, 8, 13, 4, 15, 1, 6, 7, 1, 14, 6, 7, 8, 0, 15, 1, 3, 1, 6, 5, 3, 8, 11, 5, 1, 11, 1, 10, 10, 11, 3, 3, 9, 11, 14, 5, 10, 14, 6, 6, 2, 11, 5, 15, 15, 9, 11, 6>>)))
    @@
    (("(None, 4)140fc148a380d69b8753d296355d450a4c606dfa652482747ab694cd6ac239720f953d12a939fe4ef354fff77564841627136a6bf3667b256c4a5cb6768788da0f953d12a939fe4ef354fff77564841627136a6bf3667b256c4a5cb6768788da"
        :> <<3, 2, 5, 11, 8, 12, 9, 8, 0, 4, 3, 11, 5, 2, 4, 13, 12, 1, 5, 9, 11, 14, 2, 15, 7, 10, 6, 6, 8, 14, 14, 2, 8, 1, 6, 3, 10, 14, 14, 0, 1, 9, 2, 0, 15, 6, 10, 1, 7, 14, 2, 6, 8, 5, 14, 3, 10, 1, 3, 15, 14, 0, 2, 14>>)
    @@
    (("(None, 4)140fc148a380d69b8753d296355d450a4c606dfa652482747ab694cd6ac239720f953d12a939fe4ef354fff77564841627136a6bf3667b256c4a5cb6768788da140fc148a380d69b8753d296355d450a4c606dfa652482747ab694cd6ac23972"
        :> <<0, 0, 7, 14, 4, 8, 14, 7, 8, 11, 7, 2, 0, 8, 4, 14, 14, 12, 7, 4, 13, 0, 1, 4, 15, 5, 3, 2, 15, 5, 1, 5, 8, 1, 0, 3, 2, 12, 14, 9, 12, 1, 14, 0, 10, 11, 15, 11, 4, 11, 1, 3, 7, 8, 8, 14, 0, 7, 12, 3, 13, 13, 5, 1>>)
    @@
    ("(None, 4)140fc148a380d69b8753d296355d450a4c606dfa652482747ab694cd6ac239720f953d12a939fe4ef354fff77564841627136a6bf3667b256c4a5cb6768788da7d3c95f98bd2b66af7c1d3a16cad13e01562539e02afc9695b86a5416092645f"
        :> <<15, 13, 1, 9, 8, 14, 1, 3, 6, 15, 12, 10, 7, 14, 0, 15, 8, 7, 14, 1, 14, 15, 8, 15, 15, 11, 4, 3, 9, 9, 9, 8, 6, 1, 0, 4, 8, 6, 8, 5, 9, 6, 6, 4, 3, 10, 3, 4, 15, 3, 12, 12, 11, 5, 4, 3, 2, 6, 9, 9, 15, 5, 7, 7>>))))
    @@
    ((("(None, 4)140fc148a380d69b8753d296355d450a4c606dfa652482747ab694cd6ac23972140fc148a380d69b8753d296355d450a4c606dfa652482747ab694cd6ac23972"
        :> <<8, 10, 9, 8, 13, 0, 7, 15, 6, 12, 14, 2, 14, 6, 14, 0, 11, 9, 14, 7, 9, 2, 15, 6, 1, 7, 4, 2, 13, 11, 3, 11, 12, 11, 8, 5, 6, 7, 7, 14, 4, 7, 10, 8, 10, 8, 8, 11, 6, 11, 6, 3, 0, 0, 14, 9, 7, 14, 3, 10, 7, 15, 7, 12>>)
    @@
    (("(None, 4)140fc148a380d69b8753d296355d450a4c606dfa652482747ab694cd6ac23972140fc148a380d69b8753d296355d450a4c606dfa652482747ab694cd6ac239720af7ba66f9a27ed0e229221aada0cc88d5d6fd58f46f72eb626bd37b8e94efc8"
        :> <<0, 1, 7, 9, 3, 7, 0, 1, 3, 8, 10, 5, 2, 4, 3, 9, 10, 13, 8, 14, 15, 4, 15, 10, 14, 5, 7, 11, 12, 5, 1, 6, 0, 3, 6, 13, 13, 13, 15, 3, 7, 7, 2, 1, 15, 5, 3, 0, 10, 10, 12, 13, 5, 13, 9, 3, 2, 0, 6, 8, 14, 10, 9, 13>>)
    @@
    ("(None, 4)140fc148a380d69b8753d296355d450a4c606dfa652482747ab694cd6ac23972140fc148a380d69b8753d296355d450a4c606dfa652482747ab694cd6ac239720f953d12a939fe4ef354fff77564841627136a6bf3667b256c4a5cb6768788da"
        :> <<15, 13, 9, 5, 4, 6, 5, 13, 11, 6, 13, 4, 6, 15, 12, 9, 5, 7, 3, 7, 5, 10, 8, 6, 15, 12, 15, 12, 0, 7, 0, 2, 12, 13, 12, 5, 7, 2, 0, 3, 14, 10, 0, 11, 2, 15, 0, 1, 3, 2, 0, 2, 10, 9, 8, 15, 1, 4, 0, 12, 8, 13, 13, 3>>)))
    @@
    ((("(None, 4)140fc148a380d69b8753d296355d450a4c606dfa652482747ab694cd6ac23972140fc148a380d69b8753d296355d450a4c606dfa652482747ab694cd6ac23972140fc148a380d69b8753d296355d450a4c606dfa652482747ab694cd6ac23972"
        :> <<13, 6, 2, 6, 0, 10, 9, 5, 0, 8, 13, 4, 7, 2, 8, 13, 1, 9, 5, 12, 14, 3, 8, 2, 2, 10, 13, 3, 14, 10, 1, 1, 7, 15, 15, 8, 11, 8, 11, 2, 12, 3, 11, 9, 7, 0, 6, 7, 5, 5, 3, 4, 3, 14, 15, 4, 2, 6, 8, 11, 2, 13, 1, 1>>)
    @@
    ("(None, 4)140fc148a380d69b8753d296355d450a4c606dfa652482747ab694cd6ac23972140fc148a380d69b8753d296355d450a4c606dfa652482747ab694cd6ac239727d3c95f98bd2b66af7c1d3a16cad13e01562539e02afc9695b86a5416092645f"
        :> <<4, 12, 4, 11, 12, 3, 5, 3, 0, 3, 5, 11, 15, 13, 10, 8, 6, 4, 7, 6, 0, 14, 10, 9, 5, 14, 13, 12, 8, 9, 7, 7, 3, 11, 2, 0, 4, 3, 13, 11, 0, 14, 5, 2, 15, 0, 13, 1, 6, 5, 5, 0, 0, 9, 15, 6, 1, 1, 15, 5, 5, 7, 11, 11>>))
    @@
    (("(None, 4)140fc148a380d69b8753d296355d450a4c606dfa652482747ab694cd6ac239727d3c95f98bd2b66af7c1d3a16cad13e01562539e02afc9695b86a5416092645f"
        :> <<12, 14, 1, 12, 11, 7, 13, 15, 8, 7, 10, 10, 14, 8, 9, 12, 5, 8, 9, 3, 15, 6, 1, 13, 0, 6, 3, 4, 10, 4, 3, 14, 13, 6, 1, 9, 0, 0, 10, 2, 7, 4, 2, 15, 2, 0, 13, 9, 12, 1, 6, 10, 5, 5, 1, 5, 3, 9, 15, 3, 8, 0, 6, 4>>)
    @@
    ("(None, 4)140fc148a380d69b8753d296355d450a4c606dfa652482747ab694cd6ac239727d3c95f98bd2b66af7c1d3a16cad13e01562539e02afc9695b86a5416092645f0af7ba66f9a27ed0e229221aada0cc88d5d6fd58f46f72eb626bd37b8e94efc8"
        :> <<15, 9, 5, 7, 4, 2, 6, 0, 15, 6, 4, 9, 6, 8, 8, 8, 0, 6, 3, 0, 6, 12, 7, 1, 5, 7, 8, 1, 5, 3, 9, 15, 0, 15, 10, 10, 0, 3, 9, 13, 9, 13, 8, 5, 14, 7, 10, 10, 14, 3, 10, 12, 4, 2, 3, 3, 3, 5, 11, 11, 5, 10, 8, 7>>)))))))
    @@
    (((((("(None, 4)140fc148a380d69b8753d296355d450a4c606dfa652482747ab694cd6ac239727d3c95f98bd2b66af7c1d3a16cad13e01562539e02afc9695b86a5416092645f0f953d12a939fe4ef354fff77564841627136a6bf3667b256c4a5cb6768788da"
        :> <<11, 4, 9, 12, 6, 12, 12, 15, 14, 15, 0, 12, 8, 0, 3, 3, 7, 10, 2, 7, 9, 6, 1, 2, 4, 9, 13, 9, 14, 13, 10, 1, 10, 4, 4, 13, 12, 11, 4, 5, 3, 12, 15, 3, 9, 10, 5, 10, 6, 6, 13, 14, 10, 4, 12, 4, 10, 14, 6, 6, 9, 10, 12, 8>>)
    @@
    (("(None, 4)140fc148a380d69b8753d296355d450a4c606dfa652482747ab694cd6ac239727d3c95f98bd2b66af7c1d3a16cad13e01562539e02afc9695b86a5416092645f140fc148a380d69b8753d296355d450a4c606dfa652482747ab694cd6ac23972"
        :> <<13, 12, 6, 12, 3, 4, 14, 15, 4, 5, 3, 3, 13, 0, 6, 12, 7, 5, 4, 9, 13, 11, 1, 8, 12, 15, 2, 11, 7, 13, 6, 7, 11, 9, 8, 8, 6, 9, 13, 1, 1, 13, 5, 11, 14, 6, 10, 13, 10, 8, 2, 2, 0, 8, 8, 3, 1, 8, 5, 15, 9, 10, 15, 8>>)
    @@
    ("(None, 4)140fc148a380d69b8753d296355d450a4c606dfa652482747ab694cd6ac239727d3c95f98bd2b66af7c1d3a16cad13e01562539e02afc9695b86a5416092645f7d3c95f98bd2b66af7c1d3a16cad13e01562539e02afc9695b86a5416092645f"
        :> <<13, 6, 9, 8, 10, 5, 0, 8, 13, 6, 14, 6, 3, 3, 5, 14, 8, 13, 15, 9, 4, 8, 6, 9, 6, 8, 15, 9, 7, 1, 9, 6, 15, 5, 5, 13, 11, 12, 10, 12, 15, 4, 1, 1, 7, 11, 1, 2, 15, 4, 3, 11, 10, 10, 13, 8, 7, 9, 9, 9, 6, 6, 12, 3>>)))
    @@
    (("(None, 4)7d3c95f98bd2b66af7c1d3a16cad13e01562539e02afc9695b86a5416092645f"
        :> <<8, 0, 8, 7, 4, 9, 0, 4, 13, 0, 0, 12, 12, 13, 10, 1, 14, 12, 9, 3, 1, 9, 0, 6, 6, 12, 13, 13, 7, 11, 2, 0, 3, 15, 2, 5, 15, 10, 11, 6, 5, 8, 0, 15, 3, 1, 11, 4, 7, 5, 8, 7, 7, 10, 10, 0, 7, 7, 7, 10, 11, 3, 5, 6>>)
    @@
    (("(None, 4)7d3c95f98bd2b66af7c1d3a16cad13e01562539e02afc9695b86a5416092645f0af7ba66f9a27ed0e229221aada0cc88d5d6fd58f46f72eb626bd37b8e94efc8"
        :> <<2, 9, 1, 12, 14, 3, 12, 2, 4, 7, 14, 3, 13, 2, 12, 4, 7, 2, 13, 1, 7, 7, 0, 10, 11, 13, 14, 14, 6, 3, 6, 12, 7, 0, 1, 7, 7, 8, 7, 7, 8, 15, 12, 5, 2, 11, 7, 8, 15, 10, 4, 7, 8, 13, 1, 0, 3, 15, 13, 0, 11, 12, 4, 5>>)
    @@
    ("(None, 4)7d3c95f98bd2b66af7c1d3a16cad13e01562539e02afc9695b86a5416092645f0af7ba66f9a27ed0e229221aada0cc88d5d6fd58f46f72eb626bd37b8e94efc80af7ba66f9a27ed0e229221aada0cc88d5d6fd58f46f72eb626bd37b8e94efc8"
        :> <<15, 11, 14, 13, 11, 0, 7, 15, 8, 0, 13, 2, 0, 12, 9, 8, 2, 15, 2, 8, 10, 8, 6, 10, 0, 8, 8, 7, 0, 12, 1, 10, 0, 1, 15, 7, 2, 1, 5, 12, 11, 10, 9, 5, 12, 8, 3, 7, 6, 0, 0, 10, 2, 0, 2, 12, 7, 3, 1, 12, 5, 10, 2, 5>>))))
    @@
    ((("(None, 4)7d3c95f98bd2b66af7c1d3a16cad13e01562539e02afc9695b86a5416092645f0af7ba66f9a27ed0e229221aada0cc88d5d6fd58f46f72eb626bd37b8e94efc80f953d12a939fe4ef354fff77564841627136a6bf3667b256c4a5cb6768788da"
        :> <<13, 2, 1, 3, 14, 14, 9, 15, 5, 12, 10, 3, 11, 3, 15, 9, 6, 10, 7, 10, 7, 4, 6, 10, 10, 0, 12, 2, 15, 14, 5, 4, 5, 7, 8, 9, 14, 13, 2, 10, 3, 8, 5, 2, 12, 12, 6, 10, 4, 1, 6, 11, 1, 4, 6, 12, 12, 12, 4, 8, 11, 0, 7, 8>>)
    @@
    (("(None, 4)7d3c95f98bd2b66af7c1d3a16cad13e01562539e02afc9695b86a5416092645f0af7ba66f9a27ed0e229221aada0cc88d5d6fd58f46f72eb626bd37b8e94efc8140fc148a380d69b8753d296355d450a4c606dfa652482747ab694cd6ac23972"
        :> <<9, 15, 3, 15, 7, 13, 2, 3, 3, 3, 15, 13, 12, 15, 6, 14, 15, 14, 11, 6, 3, 3, 3, 9, 11, 5, 1, 11, 14, 7, 1, 3, 6, 4, 0, 0, 8, 7, 9, 8, 13, 5, 14, 0, 15, 1, 2, 5, 0, 12, 11, 14, 14, 4, 3, 1, 2, 15, 12, 0, 1, 4, 10, 1>>)
    @@
    ("(None, 4)7d3c95f98bd2b66af7c1d3a16cad13e01562539e02afc9695b86a5416092645f0af7ba66f9a27ed0e229221aada0cc88d5d6fd58f46f72eb626bd37b8e94efc87d3c95f98bd2b66af7c1d3a16cad13e01562539e02afc9695b86a5416092645f"
        :> <<6, 6, 15, 7, 5, 11, 9, 6, 14, 11, 14, 1, 3, 8, 7, 7, 12, 1, 0, 8, 1, 7, 11, 9, 9, 5, 4, 10, 8, 15, 14, 15, 2, 2, 6, 11, 7, 0, 14, 7, 0, 8, 4, 5, 12, 13, 15, 2, 3, 0, 4, 0, 11, 3, 5, 15, 11, 12, 9, 12, 1, 1, 9, 8>>)))
    @@
    ((("(None, 4)7d3c95f98bd2b66af7c1d3a16cad13e01562539e02afc9695b86a5416092645f0f953d12a939fe4ef354fff77564841627136a6bf3667b256c4a5cb6768788da"
        :> <<12, 8, 7, 15, 14, 5, 10, 13, 12, 3, 1, 14, 3, 14, 10, 9, 10, 1, 9, 10, 4, 1, 6, 13, 6, 0, 4, 6, 4, 3, 10, 13, 2, 12, 1, 2, 1, 9, 10, 6, 4, 5, 11, 5, 6, 3, 5, 9, 15, 1, 10, 6, 11, 8, 4, 15, 7, 3, 14, 10, 11, 3, 8, 13>>)
    @@
    ("(None, 4)7d3c95f98bd2b66af7c1d3a16cad13e01562539e02afc9695b86a5416092645f0f953d12a939fe4ef354fff77564841627136a6bf3667b256c4a5cb6768788da0af7ba66f9a27ed0e229221aada0cc88d5d6fd58f46f72eb626bd37b8e94efc8"
        :> <<7, 13, 5, 14, 1, 14, 4, 11, 12, 7, 7, 5, 4, 12, 10, 3, 13, 14, 8, 5, 9, 13, 8, 5, 0, 14, 8, 0, 2, 9, 1, 0, 0, 9, 14, 13, 14, 8, 2, 11, 0, 3, 8, 8, 7, 9, 11, 5, 14, 8, 6, 0, 14, 8, 1, 7, 1, 2, 14, 15, 15, 13, 15, 7>>))
    @@
    (("(None, 4)7d3c95f98bd2b66af7c1d3a16cad13e01562539e02afc9695b86a5416092645f0f953d12a939fe4ef354fff77564841627136a6bf3667b256c4a5cb6768788da0f953d12a939fe4ef354fff77564841627136a6bf3667b256c4a5cb6768788da"
        :> <<6, 10, 7, 9, 3, 7, 15, 6, 4, 2, 2, 14, 11, 3, 9, 8, 0, 1, 3, 3, 8, 14, 6, 8, 12, 13, 10, 12, 8, 6, 11, 14, 8, 0, 11, 8, 2, 9, 3, 10, 0, 1, 2, 13, 6, 7, 6, 12, 1, 5, 9, 3, 14, 10, 2, 11, 14, 7, 9, 7, 11, 3, 6, 7>>)
    @@
    ("(None, 4)7d3c95f98bd2b66af7c1d3a16cad13e01562539e02afc9695b86a5416092645f0f953d12a939fe4ef354fff77564841627136a6bf3667b256c4a5cb6768788da140fc148a380d69b8753d296355d450a4c606dfa652482747ab694cd6ac23972"
        :> <<13, 11, 6, 10, 5, 1, 11, 12, 10, 14, 15, 2, 12, 13, 5, 6, 9, 4, 7, 2, 4, 4, 1, 4, 13, 10, 13, 8, 10, 11, 3, 8, 8, 8, 8, 4, 4, 5, 15, 10, 10, 2, 12, 8, 1, 1, 6, 10, 7, 14, 0, 10, 12, 0, 11, 11, 1, 11, 5, 3, 11, 1, 3, 9>>)))))
    @@
    (((("(None, 4)7d3c95f98bd2b66af7c1d3a16cad13e01562539e02afc9695b86a5416092645f0f953d12a939fe4ef354fff77564841627136a6bf3667b256c4a5cb6768788da7d3c95f98bd2b66af7c1d3a16cad13e01562539e02afc9695b86a5416092645f"
        :> <<10, 13, 11, 10, 9, 0, 1, 2, 6, 6, 4, 8, 6, 4, 7, 13, 10, 12, 7, 15, 5, 2, 5, 1, 13, 1, 13, 3, 14, 12, 8, 11, 12, 8, 2, 14, 15, 6, 7, 0, 10, 6, 14, 12, 15, 8, 5, 1, 7, 9, 14, 2, 9, 3, 15, 10, 7, 13, 9, 4, 3, 14, 11, 8>>)
    @@
    (("(None, 4)7d3c95f98bd2b66af7c1d3a16cad13e01562539e02afc9695b86a5416092645f140fc148a380d69b8753d296355d450a4c606dfa652482747ab694cd6ac23972"
        :> <<11, 2, 10, 15, 0, 1, 1, 9, 7, 5, 12, 11, 11, 4, 1, 2, 12, 8, 6, 1, 13, 1, 3, 6, 2, 8, 11, 0, 12, 1, 6, 6, 8, 0, 11, 2, 6, 4, 11, 8, 4, 13, 12, 5, 10, 7, 4, 9, 13, 11, 8, 12, 4, 0, 6, 13, 13, 4, 8, 11, 0, 15, 11, 11>>)
    @@
    ("(None, 4)7d3c95f98bd2b66af7c1d3a16cad13e01562539e02afc9695b86a5416092645f140fc148a380d69b8753d296355d450a4c606dfa652482747ab694cd6ac239720af7ba66f9a27ed0e229221aada0cc88d5d6fd58f46f72eb626bd37b8e94efc8"
        :> <<3, 10, 4, 11, 3, 8, 1, 10, 3, 13, 1, 14, 5, 10, 4, 9, 11, 14, 15, 5, 9, 0, 6, 10, 8, 3, 10, 5, 0, 14, 6, 0, 3, 15, 14, 15, 7, 1, 6, 9, 4, 13, 11, 14, 1, 8, 11, 9, 4, 7, 7, 5, 8, 4, 9, 3, 0, 3, 14, 2, 10, 10, 8, 9>>)))
    @@
    (("(None, 4)7d3c95f98bd2b66af7c1d3a16cad13e01562539e02afc9695b86a5416092645f140fc148a380d69b8753d296355d450a4c606dfa652482747ab694cd6ac239720f953d12a939fe4ef354fff77564841627136a6bf3667b256c4a5cb6768788da"
        :> <<12, 14, 6, 6, 2, 10, 7, 2, 10, 1, 7, 12, 6, 11, 11, 14, 10, 9, 8, 3, 7, 14, 3, 0, 7, 13, 5, 3, 6, 12, 15, 4, 1, 3, 13, 4, 1, 6, 4, 6, 6, 5, 10, 2, 15, 2, 14, 3, 12, 12, 10, 5, 2, 5, 12, 11, 2, 1, 15, 0, 2, 7, 0, 3>>)
    @@
    (("(None, 4)7d3c95f98bd2b66af7c1d3a16cad13e01562539e02afc9695b86a5416092645f140fc148a380d69b8753d296355d450a4c606dfa652482747ab694cd6ac23972140fc148a380d69b8753d296355d450a4c606dfa652482747ab694cd6ac23972"
        :> <<15, 6, 5, 13, 0, 15, 15, 12, 1, 15, 15, 9, 1, 6, 0, 13, 2, 2, 9, 10, 15, 4, 11, 10, 7, 0, 4, 11, 2, 7, 4, 7, 15, 10, 0, 7, 6, 6, 15, 14, 14, 10, 6, 10, 3, 0, 11, 8, 2, 8, 9, 2, 2, 2, 5, 10, 7, 6, 2, 15, 11, 11, 11, 5>>)
    @@
    ("(None, 4)7d3c95f98bd2b66af7c1d3a16cad13e01562539e02afc9695b86a5416092645f140fc148a380d69b8753d296355d450a4c606dfa652482747ab694cd6ac239727d3c95f98bd2b66af7c1d3a16cad13e01562539e02afc9695b86a5416092645f"
        :> <<11, 12, 11, 5, 9, 3, 7, 7, 2, 3, 6, 6, 1, 11, 12, 1, 1, 15, 13, 1, 13, 5, 2, 11, 0, 9, 12, 5, 11, 12, 5, 5, 9, 5, 13, 14, 2, 3, 9, 11, 2, 14, 2, 7, 1, 2, 1, 9, 5, 14, 5, 5, 3, 12, 6, 11, 12, 4, 0, 12, 8, 5, 10, 14>>))))
    @@
    ((("(None, 4)7d3c95f98bd2b66af7c1d3a16cad13e01562539e02afc9695b86a5416092645f7d3c95f98bd2b66af7c1d3a16cad13e01562539e02afc9695b86a5416092645f"
        :> <<0, 14, 1, 11, 3, 4, 1, 5, 9, 3, 1, 5, 11, 12, 8, 12, 0, 7, 5, 8, 6, 8, 3, 13, 1, 6, 13, 1, 0, 4, 12, 12, 1, 4, 12, 4, 0, 2, 8, 2, 5, 6, 10, 7, 13, 11, 7, 9, 8, 0, 10, 0, 12, 2, 10, 8, 5, 6, 5, 4, 15, 12, 4, 6>>)
    @@
    (("(None, 4)7d3c95f98bd2b66af7c1d3a16cad13e01562539e02afc9695b86a5416092645f7d3c95f98bd2b66af7c1d3a16cad13e01562539e02afc9695b86a5416092645f0af7ba66f9a27ed0e229221aada0cc88d5d6fd58f46f72eb626bd37b8e94efc8"
        :> <<4, 0, 2, 3, 7, 8, 8, 10, 15, 8, 7, 1, 3, 13, 8, 0, 14, 13, 12, 8, 6, 1, 15, 1, 4, 11, 14, 10, 8, 9, 11, 7, 11, 3, 6, 4, 2, 11, 13, 1, 8, 15, 13, 4, 6, 2, 1, 15, 11, 7, 6, 13, 9, 9, 10, 12, 11, 1, 3, 2, 4, 14, 15, 12>>)
    @@
    ("(None, 4)7d3c95f98bd2b66af7c1d3a16cad13e01562539e02afc9695b86a5416092645f7d3c95f98bd2b66af7c1d3a16cad13e01562539e02afc9695b86a5416092645f0f953d12a939fe4ef354fff77564841627136a6bf3667b256c4a5cb6768788da"
        :> <<4, 11, 10, 0, 9, 13, 0, 12, 12, 7, 9, 1, 13, 7, 15, 10, 5, 14, 5, 10, 2, 3, 8, 13, 14, 3, 7, 2, 8, 1, 11, 10, 7, 0, 8, 4, 13, 9, 1, 10, 1, 2, 5, 14, 6, 5, 11, 6, 8, 8, 7, 11, 10, 13, 14, 15, 2, 11, 1, 4, 10, 3, 11, 2>>)))
    @@
    ((("(None, 4)7d3c95f98bd2b66af7c1d3a16cad13e01562539e02afc9695b86a5416092645f7d3c95f98bd2b66af7c1d3a16cad13e01562539e02afc9695b86a5416092645f140fc148a380d69b8753d296355d450a4c606dfa652482747ab694cd6ac23972"
        :> <<2, 4, 5, 2, 5, 3, 11, 4, 5, 3, 2, 14, 11, 3, 0, 5, 11, 10, 5, 10, 3, 3, 8, 14, 14, 13, 9, 1, 10, 3, 7, 4, 5, 14, 7, 9, 11, 4, 6, 14, 11, 12, 15, 4, 4, 3, 15, 0, 3, 7, 12, 13, 4, 6, 1, 4, 1, 8, 6, 12, 10, 14, 10, 12>>)
    @@
    ("(None, 4)7d3c95f98bd2b66af7c1d3a16cad13e01562539e02afc9695b86a5416092645f7d3c95f98bd2b66af7c1d3a16cad13e01562539e02afc9695b86a5416092645f7d3c95f98bd2b66af7c1d3a16cad13e01562539e02afc9695b86a5416092645f"
        :> <<11, 13, 7, 5, 9, 13, 1, 14, 2, 8, 9, 5, 7, 13, 15, 3, 13, 2, 6, 9, 1, 4, 7, 7, 4, 8, 1, 14, 11, 6, 3, 9, 6, 11, 8, 5, 15, 15, 0, 13, 12, 12, 12, 10, 14, 2, 10, 14, 13, 7, 2, 3, 1, 3, 9, 8, 11, 4, 12, 9, 14, 10, 5, 13>>))
    @@
    (("(None, 5)"
        :> <<12, 6, 11, 12, 14, 4, 1, 2, 9, 14, 3, 11, 2, 9, 10, 9, 10, 13, 9, 12, 8, 7, 2, 7, 6, 0, 8, 3, 14, 3, 15, 6, 5, 7, 1, 10, 2, 6, 4, 11, 6, 4, 9, 6, 13, 15, 15, 8, 9, 3, 10, 8, 7, 9, 10, 12, 1, 9, 0, 14, 15, 12, 2, 13>>)
    @@
    ("(None, 5)0af7ba66f9a27ed0e229221aada0cc88d5d6fd58f46f72eb626bd37b8e94efc8"
        :> <<15, 9, 6, 11, 9, 7, 14, 11, 1, 15, 5, 13, 14, 4, 10, 0, 10, 5, 3, 15, 12, 14, 14, 7, 4, 2, 13, 5, 10, 6, 15, 0, 3, 10, 0, 10, 7, 3, 15, 14, 13, 10, 3, 10, 7, 15, 8, 10, 14, 9, 6, 3, 1, 3, 8, 15, 5, 12, 5, 0, 9, 7, 13, 10>>))))))
    @@
    ((((("(None, 5)0af7ba66f9a27ed0e229221aada0cc88d5d6fd58f46f72eb626bd37b8e94efc80af7ba66f9a27ed0e229221aada0cc88d5d6fd58f46f72eb626bd37b8e94efc8"
        :> <<9, 9, 12, 4, 6, 3, 6, 15, 1, 4, 4, 6, 2, 7, 11, 7, 8, 14, 8, 1, 9, 3, 12, 8, 4, 2, 7, 9, 12, 13, 2, 11, 12, 14, 0, 10, 4, 14, 6, 7, 8, 12, 5, 8, 8, 5, 6, 12, 3, 15, 13, 5, 12, 13, 2, 2, 7, 6, 10, 6, 9, 15, 11, 14>>)
    @@
    (("(None, 5)0af7ba66f9a27ed0e229221aada0cc88d5d6fd58f46f72eb626bd37b8e94efc80af7ba66f9a27ed0e229221aada0cc88d5d6fd58f46f72eb626bd37b8e94efc80af7ba66f9a27ed0e229221aada0cc88d5d6fd58f46f72eb626bd37b8e94efc8"
        :> <<10, 12, 6, 11, 15, 0, 5, 12, 12, 7, 0, 3, 4, 9, 3, 9, 9, 10, 9, 15, 0, 14, 9, 2, 9, 12, 10, 11, 4, 14, 10, 12, 9, 9, 13, 12, 14, 9, 6, 1, 0, 3, 2, 5, 15, 15, 4, 4, 6, 9, 2, 2, 5, 7, 7, 2, 3, 0, 12, 1, 2, 1, 10, 6>>)
    @@
    ("(None, 5)0af7ba66f9a27ed0e229221aada0cc88d5d6fd58f46f72eb626bd37b8e94efc80af7ba66f9a27ed0e229221aada0cc88d5d6fd58f46f72eb626bd37b8e94efc80f953d12a939fe4ef354fff77564841627136a6bf3667b256c4a5cb6768788da"
        :> <<4, 15, 4, 5, 7, 1, 14, 11, 3, 4, 0, 6, 12, 0, 4, 4, 3, 11, 9, 1, 9, 15, 14, 11, 5, 11, 10, 15, 14, 12, 5, 9, 1, 7, 15, 10, 15, 11, 2, 4, 11, 14, 7, 11, 12, 14, 5, 12, 7, 11, 1, 0, 5, 11, 4, 4, 13, 12, 9, 3, 15, 11, 6, 2>>)))
    @@
    (("(None, 5)0af7ba66f9a27ed0e229221aada0cc88d5d6fd58f46f72eb626bd37b8e94efc80af7ba66f9a27ed0e229221aada0cc88d5d6fd58f46f72eb626bd37b8e94efc8140fc148a380d69b8753d296355d450a4c606dfa652482747ab694cd6ac23972"
        :> <<12, 8, 10, 14, 2, 8, 1, 6, 13, 13, 0, 10, 8, 0, 6, 7, 2, 15, 6, 12, 0, 5, 0, 15, 6, 9, 9, 1, 4, 4, 11, 0, 15, 4, 12, 0, 1, 11, 10, 15, 1, 1, 9, 7, 15, 4, 11, 8, 9, 0, 14, 10, 11, 2, 1, 10, 8, 8, 12, 8, 11, 8, 9, 6>>)
    @@
    (("(None, 5)0af7ba66f9a27ed0e229221aada0cc88d5d6fd58f46f72eb626bd37b8e94efc80af7ba66f9a27ed0e229221aada0cc88d5d6fd58f46f72eb626bd37b8e94efc87d3c95f98bd2b66af7c1d3a16cad13e01562539e02afc9695b86a5416092645f"
        :> <<3, 9, 11, 9, 15, 10, 10, 12, 7, 10, 4, 10, 3, 3, 12, 2, 9, 10, 1, 1, 4, 5, 15, 3, 4, 7, 4, 7, 12, 13, 10, 3, 12, 11, 5, 10, 10, 13, 14, 9, 0, 0, 6, 15, 9, 5, 12, 4, 13, 2, 4, 13, 14, 14, 8, 10, 5, 13, 13, 4, 6, 6, 2, 14>>)
    @@
    ("(None, 5)0af7ba66f9a27ed0e229221aada0cc88d5d6fd58f46f72eb626bd37b8e94efc80f953d12a939fe4ef354fff77564841627136a6bf3667b256c4a5cb6768788da"
        :> <<13, 7, 10, 10, 4, 7, 5, 3, 15, 7, 10, 6, 14, 15, 11, 15, 12, 11, 9, 14, 15, 4, 15, 1, 2, 14, 13, 7, 4, 12, 1, 1, 15, 0, 0, 4, 1, 3, 1, 2, 14, 2, 1, 8, 13, 11, 12, 15, 13, 3, 15, 14, 1, 7, 1, 13, 3, 5, 3, 15, 6, 3, 5, 14>>))))
    @@
    ((("(None, 5)0af7ba66f9a27ed0e229221aada0cc88d5d6fd58f46f72eb626bd37b8e94efc80f953d12a939fe4ef354fff77564841627136a6bf3667b256c4a5cb6768788da0af7ba66f9a27ed0e229221aada0cc88d5d6fd58f46f72eb626bd37b8e94efc8"
        :> <<14, 2, 9, 13, 0, 10, 7, 4, 15, 1, 11, 15, 14, 9, 15, 7, 1, 12, 11, 3, 11, 11, 10, 11, 14, 9, 9, 5, 11, 1, 3, 11, 13, 13, 6, 10, 2, 11, 7, 10, 14, 13, 9, 12, 12, 6, 4, 1, 2, 0, 7, 0, 9, 8, 13, 5, 5, 15, 13, 9, 7, 2, 6, 4>>)
    @@
    (("(None, 5)0af7ba66f9a27ed0e229221aada0cc88d5d6fd58f46f72eb626bd37b8e94efc80f953d12a939fe4ef354fff77564841627136a6bf3667b256c4a5cb6768788da0f953d12a939fe4ef354fff77564841627136a6bf3667b256c4a5cb6768788da"
        :> <<11, 6, 12, 7, 6, 14, 10, 7, 10, 2, 3, 11, 2, 7, 8, 0, 9, 14, 7, 11, 12, 13, 6, 6, 4, 4, 11, 1, 12, 15, 11, 13, 5, 13, 10, 8, 2, 12, 2, 5, 13, 3, 7, 11, 7, 9, 10, 7, 11, 5, 2, 11, 7, 7, 15, 0, 1, 2, 6, 5, 14, 12, 10, 2>>)
    @@
    ("(None, 5)0af7ba66f9a27ed0e229221aada0cc88d5d6fd58f46f72eb626bd37b8e94efc80f953d12a939fe4ef354fff77564841627136a6bf3667b256c4a5cb6768788da140fc148a380d69b8753d296355d450a4c606dfa652482747ab694cd6ac23972"
        :> <<6, 8, 9, 12, 6, 15, 10, 14, 14, 7, 10, 0, 3, 10, 7, 14, 4, 15, 8, 11, 15, 3, 3, 0, 15, 3, 11, 7, 14, 6, 3, 2, 12, 6, 6, 8, 8, 8, 0, 15, 13, 4, 9, 12, 1, 9, 12, 14, 8, 13, 11, 4, 15, 15, 9, 11, 12, 6, 2, 8, 13, 10, 0, 9>>)))
    @@
    ((("(None, 5)0af7ba66f9a27ed0e229221aada0cc88d5d6fd58f46f72eb626bd37b8e94efc80f953d12a939fe4ef354fff77564841627136a6bf3667b256c4a5cb6768788da7d3c95f98bd2b66af7c1d3a16cad13e01562539e02afc9695b86a5416092645f"
        :> <<7, 15, 4, 13, 8, 4, 15, 9, 2, 5, 15, 11, 14, 5, 2, 9, 15, 10, 7, 5, 7, 1, 13, 7, 15, 0, 13, 14, 10, 10, 0, 0, 12, 15, 2, 2, 13, 10, 0, 3, 7, 2, 0, 4, 15, 11, 2, 6, 15, 14, 13, 11, 11, 12, 4, 13, 8, 11, 1, 4, 15, 10, 7, 10>>)
    @@
    ("(None, 5)0af7ba66f9a27ed0e229221aada0cc88d5d6fd58f46f72eb626bd37b8e94efc8140fc148a380d69b8753d296355d450a4c606dfa652482747ab694cd6ac23972"
        :> <<15, 11, 3, 1, 11, 14, 11, 8, 9, 3, 12, 9, 9, 2, 4, 13, 4, 1, 13, 9, 3, 15, 15, 14, 13, 15, 12, 1, 8, 12, 5, 2, 8, 2, 2, 8, 7, 14, 5, 7, 3, 12, 5, 4, 11, 15, 5, 5, 6, 11, 6, 9, 1, 12, 13, 11, 13, 4, 11, 4, 0, 5, 14, 10>>))
    @@
    (("(None, 5)0af7ba66f9a27ed0e229221aada0cc88d5d6fd58f46f72eb626bd37b8e94efc8140fc148a380d69b8753d296355d450a4c606dfa652482747ab694cd6ac239720af7ba66f9a27ed0e229221aada0cc88d5d6fd58f46f72eb626bd37b8e94efc8"
        :> <<13, 3, 7, 12, 4, 11, 11, 12, 3, 13, 12, 13, 4, 0, 4, 0, 13, 8, 15, 8, 5, 5, 7, 10, 4, 6, 2, 5, 7, 14, 4, 6, 2, 9, 2, 9, 6, 8, 2, 8, 12, 10, 12, 7, 15, 12, 15, 3, 10, 10, 1, 4, 6, 2, 4, 5, 0, 14, 10, 9, 11, 4, 9, 14>>)
    @@
    ("(None, 5)0af7ba66f9a27ed0e229221aada0cc88d5d6fd58f46f72eb626bd37b8e94efc8140fc148a380d69b8753d296355d450a4c606dfa652482747ab694cd6ac239720f953d12a939fe4ef354fff77564841627136a6bf3667b256c4a5cb6768788da"
        :> <<0, 1, 7, 12, 15, 9, 8, 7, 7, 12, 13, 5, 1, 6, 4, 15, 6, 10, 10, 0, 8, 10, 9, 4, 1, 12, 12, 0, 10, 1, 8, 5, 0, 15, 6, 15, 2, 5, 13, 4, 1, 13, 13, 4, 9, 1, 2, 1, 9, 9, 10, 7, 9, 1, 0, 2, 6, 8, 14, 10, 8, 12, 14, 10>>)))))
    @@
    (((("(None, 5)0af7ba66f9a27ed0e229221aada0cc88d5d6fd58f46f72eb626bd37b8e94efc8140fc148a380d69b8753d296355d450a4c606dfa652482747ab694cd6ac23972140fc148a380d69b8753d296355d450a4c606dfa652482747ab694cd6ac23972"
        :> <<11, 8, 9, 8, 6, 8, 0, 15, 0, 3, 0, 1, 4, 9, 7, 10, 11, 1, 2, 14, 11, 6, 7, 8, 15, 6, 6, 1, 8, 12, 15, 13, 11, 7, 1, 10, 4, 4, 0, 12, 7, 2, 3, 2, 10, 10, 0, 10, 3, 4, 11, 15, 12, 3, 1, 7, 9, 10, 2, 4, 11, 13, 15, 8>>)
    @@
    (("(None, 5)0af7ba66f9a27ed0e229221aada0cc88d5d6fd58f46f72eb626bd37b8e94efc8140fc148a380d69b8753d296355d450a4c606dfa652482747ab694cd6ac239727d3c95f98bd2b66af7c1d3a16cad13e01562539e02afc9695b86a5416092645f"
        :> <<11, 8, 7, 10, 3, 6, 6, 5, 13, 2, 5, 6, 7, 10, 9, 11, 10, 15, 9, 10, 0, 14, 0, 10, 8, 13, 4, 5, 10, 0, 0, 10, 6, 0, 6, 10, 15, 8, 0, 8, 0, 11, 1, 4, 14, 13, 0, 0, 13, 5, 0, 13, 3, 4, 5, 6, 10, 2, 6, 6, 11, 0, 2, 10>>)
    @@
    ("(None, 5)0af7ba66f9a27ed0e229221aada0cc88d5d6fd58f46f72eb626bd37b8e94efc87d3c95f98bd2b66af7c1d3a16cad13e01562539e02afc9695b86a5416092645f"
        :> <<3, 12, 14, 15, 13, 11, 4, 4, 15, 4, 8, 4, 2, 11, 3, 7, 15, 10, 1, 15, 6, 11, 7, 1, 6, 12, 10, 4, 3, 1, 8, 9, 9, 8, 7, 6, 1, 7, 9, 6, 13, 0, 14, 8, 7, 11, 3, 8, 11, 15, 0, 12, 4, 2, 2, 4, 9, 1, 5, 10, 1, 15, 14, 10>>)))
    @@
    ((("(None, 5)0af7ba66f9a27ed0e229221aada0cc88d5d6fd58f46f72eb626bd37b8e94efc87d3c95f98bd2b66af7c1d3a16cad13e01562539e02afc9695b86a5416092645f0af7ba66f9a27ed0e229221aada0cc88d5d6fd58f46f72eb626bd37b8e94efc8"
        :> <<11, 10, 13, 12, 1, 1, 11, 3, 0, 2, 0, 12, 1, 2, 7, 1, 6, 5, 10, 2, 2, 13, 0, 2, 2, 10, 5, 10, 14, 2, 9, 7, 13, 2, 1, 4, 8, 5, 3, 4, 14, 7, 4, 10, 0, 15, 8, 12, 7, 1, 1, 10, 0, 7, 8, 7, 13, 5, 4, 6, 4, 7, 14, 6>>)
    @@
    ("(None, 5)0af7ba66f9a27ed0e229221aada0cc88d5d6fd58f46f72eb626bd37b8e94efc87d3c95f98bd2b66af7c1d3a16cad13e01562539e02afc9695b86a5416092645f0f953d12a939fe4ef354fff77564841627136a6bf3667b256c4a5cb6768788da"
        :> <<0, 14, 3, 7, 2, 7, 0, 7, 11, 13, 12, 4, 11, 12, 15, 14, 9, 10, 3, 9, 13, 11, 12, 11, 9, 13, 9, 2, 8, 6, 4, 12, 14, 4, 5, 7, 0, 13, 1, 11, 5, 13, 3, 10, 12, 6, 7, 7, 2, 7, 1, 5, 0, 0, 4, 2, 3, 5, 5, 4, 0, 2, 12, 14>>))
    @@
    (("(None, 5)0af7ba66f9a27ed0e229221aada0cc88d5d6fd58f46f72eb626bd37b8e94efc87d3c95f98bd2b66af7c1d3a16cad13e01562539e02afc9695b86a5416092645f140fc148a380d69b8753d296355d450a4c606dfa652482747ab694cd6ac23972"
        :> <<5, 12, 0, 15, 8, 15, 12, 7, 10, 7, 0, 13, 13, 4, 7, 1, 9, 2, 8, 8, 5, 11, 11, 3, 4, 12, 14, 3, 13, 2, 12, 2, 8, 0, 12, 10, 14, 8, 10, 4, 12, 15, 2, 13, 0, 9, 13, 6, 7, 3, 3, 9, 12, 15, 7, 4, 9, 10, 0, 13, 10, 1, 3, 3>>)
    @@
    ("(None, 5)0af7ba66f9a27ed0e229221aada0cc88d5d6fd58f46f72eb626bd37b8e94efc87d3c95f98bd2b66af7c1d3a16cad13e01562539e02afc9695b86a5416092645f7d3c95f98bd2b66af7c1d3a16cad13e01562539e02afc9695b86a5416092645f"
        :> <<12, 4, 4, 8, 11, 11, 11, 6, 13, 13, 14, 13, 3, 15, 2, 5, 13, 0, 0, 14, 15, 10, 14, 9, 11, 13, 2, 15, 11, 5, 14, 12, 11, 10, 11, 7, 15, 3, 4, 2, 13, 10, 15, 13, 9, 1, 3, 10, 0, 15, 0, 1, 7, 3, 1, 11, 9, 12, 7, 6, 0, 1, 9, 14>>))))
    @@
    ((("(None, 5)0f953d12a939fe4ef354fff77564841627136a6bf3667b256c4a5cb6768788da"
        :> <<3, 3, 15, 2, 14, 9, 4, 7, 1, 2, 5, 14, 0, 8, 4, 0, 3, 4, 15, 15, 12, 7, 9, 13, 1, 4, 7, 12, 10, 4, 14, 14, 8, 2, 9, 0, 0, 6, 5, 10, 15, 5, 4, 5, 2, 8, 7, 11, 5, 7, 2, 12, 10, 14, 11, 1, 6, 9, 2, 6, 0, 15, 0, 15>>)
    @@
    (("(None, 5)0f953d12a939fe4ef354fff77564841627136a6bf3667b256c4a5cb6768788da0af7ba66f9a27ed0e229221aada0cc88d5d6fd58f46f72eb626bd37b8e94efc8"
        :> <<10, 14, 12, 5, 3, 0, 3, 8, 3, 7, 8, 1, 3, 14, 12, 13, 7, 2, 14, 14, 12, 2, 8, 2, 14, 8, 9, 11, 0, 13, 1, 9, 0, 6, 6, 4, 4, 12, 6, 5, 0, 7, 1, 2, 14, 13, 12, 4, 1, 10, 12, 13, 13, 3, 12, 5, 4, 1, 0, 10, 5, 11, 8, 7>>)
    @@
    ("(None, 5)0f953d12a939fe4ef354fff77564841627136a6bf3667b256c4a5cb6768788da0af7ba66f9a27ed0e229221aada0cc88d5d6fd58f46f72eb626bd37b8e94efc80af7ba66f9a27ed0e229221aada0cc88d5d6fd58f46f72eb626bd37b8e94efc8"
        :> <<10, 15, 4, 9, 12, 0, 5, 7, 11, 8, 13, 9, 8, 0, 15, 15, 9, 4, 14, 9, 1, 0, 8, 5, 6, 3, 6, 3, 4, 14, 15, 3, 0, 3, 6, 6, 12, 9, 12, 14, 4, 5, 9, 1, 6, 11, 5, 1, 2, 9, 9, 10, 1, 8, 15, 9, 7, 0, 0, 9, 13, 3, 15, 6>>)))
    @@
    ((("(None, 5)0f953d12a939fe4ef354fff77564841627136a6bf3667b256c4a5cb6768788da0af7ba66f9a27ed0e229221aada0cc88d5d6fd58f46f72eb626bd37b8e94efc80f953d12a939fe4ef354fff77564841627136a6bf3667b256c4a5cb6768788da"
        :> <<7, 13, 1, 8, 12, 10, 6, 13, 12, 12, 11, 13, 4, 15, 10, 8, 12, 5, 15, 0, 1, 0, 11, 5, 5, 4, 9, 2, 11, 3, 14, 1, 12, 6, 9, 12, 11, 14, 8, 6, 9, 13, 6, 9, 5, 10, 4, 8, 8, 3, 14, 6, 6, 0, 8, 14, 6, 15, 14, 6, 13, 11, 2, 6>>)
    @@
    ("(None, 5)0f953d12a939fe4ef354fff77564841627136a6bf3667b256c4a5cb6768788da0af7ba66f9a27ed0e229221aada0cc88d5d6fd58f46f72eb626bd37b8e94efc8140fc148a380d69b8753d296355d450a4c606dfa652482747ab694cd6ac23972"
        :> <<15, 5, 15, 7, 15, 7, 2, 14, 6, 8, 8, 10, 1, 10, 1, 3, 2, 7, 8, 0, 8, 7, 4, 6, 5, 6, 1, 4, 10, 15, 3, 3, 2, 14, 4, 4, 11, 15, 9, 2, 1, 9, 8, 10, 2, 3, 15, 10, 5, 10, 7, 7, 5, 15, 6, 9, 15, 11, 6, 15, 2, 13, 1, 3>>))
    @@
    (("(None, 5)0f953d12a939fe4ef354fff77564841627136a6bf3667b256c4a5cb6768788da0af7ba66f9a27ed0e229221aada0cc88d5d6fd58f46f72eb626bd37b8e94efc87d3c95f98bd2b66af7c1d3a16cad13e01562539e02afc9695b86a5416092645f"
        :> <<10, 8, 8, 7, 14, 11, 0, 12, 3, 6, 6, 0, 13, 5, 14, 0, 1, 4, 3, 12, 7, 4, 15, 8, 6, 10, 11, 7, 10, 0, 7, 9, 1, 3, 7, 5, 6, 2, 7, 10, 8, 7, 14, 1, 6, 7, 9, 3, 10, 5, 8, 2, 10, 12, 12, 10, 15, 12, 6, 0, 4, 6, 6, 5>>)
    @@
    ("(None, 5)0f953d12a939fe4ef354fff77564841627136a6bf3667b256c4a5cb6768788da0f953d12a939fe4ef354fff77564841627136a6bf3667b256c4a5cb6768788da"
        :> <<15, 12, 9, 5, 5, 4, 14, 11, 2, 15, 9, 5, 10, 7, 12, 1, 9, 7, 12, 14, 1, 10, 13, 4, 13, 2, 12, 2, 7, 10, 1, 3, 9, 9, 8, 14, 10, 14, 2, 5, 0, 7, 1, 1, 10, 15, 12, 14, 9, 4, 8, 9, 12, 1, 11, 10, 2, 0, 15, 15, 11, 5, 12, 2>>))))))))))
    @@
    ((((((((("(None, 5)0f953d12a939fe4ef354fff77564841627136a6bf3667b256c4a5cb6768788da0f953d12a939fe4ef354fff77564841627136a6bf3667b256c4a5cb6768788da0af7ba66f9a27ed0e229221aada0cc88d5d6fd58f46f72eb626bd37b8e94efc8"
        :> <<5, 4, 1, 14, 6, 5, 4, 8, 13, 14, 0, 6, 8, 11, 4, 1, 3, 6, 6, 6, 9, 6, 14, 6, 12, 2, 15, 2, 13, 5, 4, 12, 9, 6, 3, 10, 14, 13, 7, 4, 14, 12, 3, 14, 7, 5, 1, 2, 13, 7, 7, 4, 3, 7, 8, 11, 14, 0, 6, 6, 8, 1, 12, 3>>)
    @@
    (("(None, 5)0f953d12a939fe4ef354fff77564841627136a6bf3667b256c4a5cb6768788da0f953d12a939fe4ef354fff77564841627136a6bf3667b256c4a5cb6768788da0f953d12a939fe4ef354fff77564841627136a6bf3667b256c4a5cb6768788da"
        :> <<5, 2, 6, 6, 5, 10, 2, 2, 7, 8, 12, 12, 14, 3, 10, 2, 12, 7, 8, 5, 6, 7, 8, 15, 9, 12, 15, 5, 5, 3, 0, 5, 10, 15, 2, 2, 9, 8, 2, 2, 6, 11, 10, 1, 3, 3, 1, 1, 11, 12, 13, 6, 0, 5, 3, 8, 3, 2, 12, 11, 15, 15, 7, 13>>)
    @@
    ("(None, 5)0f953d12a939fe4ef354fff77564841627136a6bf3667b256c4a5cb6768788da0f953d12a939fe4ef354fff77564841627136a6bf3667b256c4a5cb6768788da140fc148a380d69b8753d296355d450a4c606dfa652482747ab694cd6ac23972"
        :> <<3, 6, 3, 3, 7, 1, 7, 11, 3, 1, 1, 1, 1, 15, 7, 9, 5, 10, 4, 15, 8, 15, 8, 4, 1, 14, 3, 0, 14, 4, 0, 9, 3, 3, 6, 12, 4, 10, 12, 2, 15, 7, 13, 2, 4, 10, 0, 2, 1, 9, 10, 4, 12, 2, 4, 11, 0, 10, 11, 14, 2, 5, 11, 13>>)))
    @@
    (("(None, 5)0f953d12a939fe4ef354fff77564841627136a6bf3667b256c4a5cb6768788da0f953d12a939fe4ef354fff77564841627136a6bf3667b256c4a5cb6768788da7d3c95f98bd2b66af7c1d3a16cad13e01562539e02afc9695b86a5416092645f"
        :> <<15, 9, 14, 7, 0, 6, 4, 11, 11, 7, 15, 1, 4, 4, 5, 15, 6, 3, 3, 2, 2, 14, 11, 6, 11, 12, 15, 13, 8, 11, 12, 7, 9, 1, 9, 13, 6, 0, 3, 13, 5, 14, 3, 3, 6, 3, 10, 14, 12, 12, 12, 13, 3, 11, 14, 6, 5, 11, 15, 9, 1, 7, 7, 1>>)
    @@
    (("(None, 5)0f953d12a939fe4ef354fff77564841627136a6bf3667b256c4a5cb6768788da140fc148a380d69b8753d296355d450a4c606dfa652482747ab694cd6ac23972"
        :> <<2, 13, 0, 13, 4, 0, 7, 15, 15, 8, 9, 0, 0, 0, 5, 10, 11, 5, 3, 14, 9, 4, 1, 7, 10, 10, 10, 14, 10, 15, 6, 0, 8, 2, 14, 11, 3, 4, 7, 12, 11, 6, 14, 3, 13, 10, 1, 4, 10, 5, 7, 5, 0, 11, 11, 3, 12, 0, 4, 8, 0, 6, 6, 15>>)
    @@
    ("(None, 5)0f953d12a939fe4ef354fff77564841627136a6bf3667b256c4a5cb6768788da140fc148a380d69b8753d296355d450a4c606dfa652482747ab694cd6ac239720af7ba66f9a27ed0e229221aada0cc88d5d6fd58f46f72eb626bd37b8e94efc8"
        :> <<15, 0, 2, 6, 4, 9, 15, 3, 8, 13, 5, 9, 9, 14, 1, 1, 4, 6, 2, 15, 9, 15, 14, 11, 5, 15, 4, 6, 11, 6, 2, 5, 2, 6, 8, 1, 2, 4, 15, 13, 4, 4, 2, 15, 9, 3, 11, 11, 12, 1, 14, 3, 8, 14, 13, 10, 15, 3, 8, 9, 7, 5, 13, 0>>))))
    @@
    ((("(None, 5)0f953d12a939fe4ef354fff77564841627136a6bf3667b256c4a5cb6768788da140fc148a380d69b8753d296355d450a4c606dfa652482747ab694cd6ac239720f953d12a939fe4ef354fff77564841627136a6bf3667b256c4a5cb6768788da"
        :> <<13, 7, 13, 11, 13, 4, 2, 6, 1, 0, 13, 2, 13, 1, 15, 11, 3, 3, 12, 5, 1, 13, 2, 9, 11, 11, 4, 6, 1, 9, 2, 8, 13, 4, 13, 10, 15, 6, 6, 11, 11, 10, 10, 7, 13, 8, 0, 6, 12, 0, 8, 14, 6, 4, 8, 15, 1, 0, 12, 6, 4, 14, 15, 2>>)
    @@
    (("(None, 5)0f953d12a939fe4ef354fff77564841627136a6bf3667b256c4a5cb6768788da140fc148a380d69b8753d296355d450a4c606dfa652482747ab694cd6ac23972140fc148a380d69b8753d296355d450a4c606dfa652482747ab694cd6ac23972"
        :> <<4, 9, 7, 12, 4, 1, 12, 1, 3, 4, 2, 7, 11, 1, 0, 6, 5, 8, 10, 12, 11, 10, 4, 1, 4, 14, 1, 15, 6, 4, 5, 10, 13, 1, 5, 9, 11, 0, 13, 10, 9, 15, 15, 3, 12, 8, 0, 12, 9, 9, 6, 15, 3, 10, 14, 15, 15, 3, 11, 1, 2, 0, 10, 15>>)
    @@
    ("(None, 5)0f953d12a939fe4ef354fff77564841627136a6bf3667b256c4a5cb6768788da140fc148a380d69b8753d296355d450a4c606dfa652482747ab694cd6ac239727d3c95f98bd2b66af7c1d3a16cad13e01562539e02afc9695b86a5416092645f"
        :> <<4, 2, 11, 9, 11, 7, 7, 8, 3, 12, 4, 8, 6, 9, 13, 14, 15, 15, 0, 10, 2, 5, 2, 8, 11, 7, 11, 4, 15, 14, 15, 7, 2, 9, 5, 3, 11, 4, 4, 13, 11, 10, 15, 14, 11, 3, 9, 11, 4, 2, 4, 8, 9, 15, 6, 13, 2, 11, 9, 7, 8, 8, 2, 14>>)))
    @@
    ((("(None, 5)0f953d12a939fe4ef354fff77564841627136a6bf3667b256c4a5cb6768788da7d3c95f98bd2b66af7c1d3a16cad13e01562539e02afc9695b86a5416092645f"
        :> <<4, 7, 0, 11, 6, 1, 9, 5, 3, 12, 4, 4, 4, 5, 0, 11, 14, 0, 12, 0, 3, 7, 14, 7, 0, 8, 9, 3, 14, 14, 10, 3, 3, 9, 12, 11, 1, 6, 0, 3, 14, 8, 4, 6, 8, 3, 2, 9, 0, 7, 7, 15, 7, 11, 2, 13, 4, 3, 3, 15, 12, 3, 1, 3>>)
    @@
    ("(None, 5)0f953d12a939fe4ef354fff77564841627136a6bf3667b256c4a5cb6768788da7d3c95f98bd2b66af7c1d3a16cad13e01562539e02afc9695b86a5416092645f0af7ba66f9a27ed0e229221aada0cc88d5d6fd58f46f72eb626bd37b8e94efc8"
        :> <<7, 11, 0, 14, 6, 6, 8, 8, 11, 10, 11, 8, 0, 1, 7, 11, 0, 0, 5, 7, 3, 7, 9, 3, 1, 7, 0, 14, 12, 2, 14, 13, 15, 11, 8, 5, 0, 8, 1, 7, 12, 5, 5, 15, 7, 5, 3, 0, 4, 8, 12, 13, 13, 4, 6, 4, 11, 1, 3, 8, 0, 14, 6, 10>>))
    @@
    (("(None, 5)0f953d12a939fe4ef354fff77564841627136a6bf3667b256c4a5cb6768788da7d3c95f98bd2b66af7c1d3a16cad13e01562539e02afc9695b86a5416092645f0f953d12a939fe4ef354fff77564841627136a6bf3667b256c4a5cb6768788da"
        :> <<7, 13, 12, 14, 11, 4, 4, 5, 2, 11, 9, 0, 4, 5, 3, 0, 6, 7, 15, 9, 2, 3, 9, 8, 2, 1, 2, 13, 15, 11, 15, 12, 2, 8, 9, 0, 0, 10, 14, 7, 7, 10, 15, 15, 7, 3, 3, 8, 0, 7, 8, 4, 8, 15, 7, 13, 1, 12, 10, 14, 7, 13, 11, 10>>)
    @@
    ("(None, 5)0f953d12a939fe4ef354fff77564841627136a6bf3667b256c4a5cb6768788da7d3c95f98bd2b66af7c1d3a16cad13e01562539e02afc9695b86a5416092645f140fc148a380d69b8753d296355d450a4c606dfa652482747ab694cd6ac23972"
        :> <<15, 2, 15, 1, 10, 12, 2, 9, 15, 10, 2, 15, 9, 14, 4, 15, 8, 1, 14, 2, 4, 0, 0, 7, 0, 3, 12, 7, 15, 3, 11, 6, 8, 9, 15, 9, 6, 12, 4, 6, 15, 5, 10, 1, 13, 9, 15, 1, 2, 1, 13, 11, 7, 6, 7, 6, 6, 0, 7, 10, 3, 14, 13, 2>>)))))
    @@
    (((("(None, 5)0f953d12a939fe4ef354fff77564841627136a6bf3667b256c4a5cb6768788da7d3c95f98bd2b66af7c1d3a16cad13e01562539e02afc9695b86a5416092645f7d3c95f98bd2b66af7c1d3a16cad13e01562539e02afc9695b86a5416092645f"
        :> <<11, 8, 1, 6, 14, 4, 5, 1, 9, 10, 0, 5, 8, 14, 14, 9, 8, 13, 9, 4, 0, 10, 4, 1, 9, 8, 4, 5, 0, 5, 3, 9, 4, 8, 10, 3, 9, 1, 7, 6, 12, 13, 0, 6, 12, 15, 2, 14, 14, 7, 11, 5, 7, 2, 8, 11, 10, 6, 13, 8, 10, 2, 0, 4>>)
    @@
    (("(None, 5)140fc148a380d69b8753d296355d450a4c606dfa652482747ab694cd6ac23972"
        :> <<0, 5, 0, 9, 6, 9, 5, 8, 15, 14, 8, 4, 14, 11, 5, 1, 11, 15, 15, 6, 3, 15, 0, 14, 3, 9, 2, 5, 4, 11, 3, 11, 5, 1, 12, 14, 4, 6, 5, 3, 14, 11, 3, 5, 9, 3, 7, 13, 15, 7, 1, 15, 11, 0, 14, 3, 14, 7, 12, 2, 8, 9, 9, 0>>)
    @@
    ("(None, 5)140fc148a380d69b8753d296355d450a4c606dfa652482747ab694cd6ac239720af7ba66f9a27ed0e229221aada0cc88d5d6fd58f46f72eb626bd37b8e94efc8"
        :> <<11, 4, 6, 5, 6, 5, 2, 12, 7, 12, 0, 13, 0, 5, 10, 11, 2, 6, 3, 10, 15, 13, 9, 14, 3, 13, 12, 10, 10, 13, 8, 0, 14, 0, 6, 8, 2, 8, 10, 9, 8, 14, 10, 7, 0, 10, 13, 1, 2, 7, 5, 12, 13, 1, 3, 11, 1, 7, 0, 3, 12, 5, 14, 1>>)))
    @@
    (("(None, 5)140fc148a380d69b8753d296355d450a4c606dfa652482747ab694cd6ac239720af7ba66f9a27ed0e229221aada0cc88d5d6fd58f46f72eb626bd37b8e94efc80af7ba66f9a27ed0e229221aada0cc88d5d6fd58f46f72eb626bd37b8e94efc8"
        :> <<5, 3, 8, 1, 15, 14, 8, 4, 1, 12, 14, 12, 3, 2, 1, 14, 5, 8, 14, 7, 3, 7, 2, 11, 5, 15, 8, 11, 14, 7, 14, 3, 3, 1, 9, 4, 15, 12, 4, 10, 11, 4, 7, 6, 14, 4, 15, 6, 0, 14, 2, 3, 0, 3, 3, 1, 3, 4, 12, 7, 12, 4, 12, 0>>)
    @@
    (("(None, 5)140fc148a380d69b8753d296355d450a4c606dfa652482747ab694cd6ac239720af7ba66f9a27ed0e229221aada0cc88d5d6fd58f46f72eb626bd37b8e94efc80f953d12a939fe4ef354fff77564841627136a6bf3667b256c4a5cb6768788da"
        :> <<7, 8, 14, 5, 8, 11, 7, 10, 10, 10, 8, 8, 8, 0, 12, 0, 10, 6, 4, 6, 10, 9, 9, 15, 9, 1, 15, 0, 10, 1, 15, 6, 0, 7, 11, 13, 8, 12, 15, 1, 7, 2, 13, 9, 14, 8, 5, 7, 5, 3, 5, 14, 1, 13, 8, 13, 12, 4, 11, 8, 7, 8, 3, 11>>)
    @@
    ("(None, 5)140fc148a380d69b8753d296355d450a4c606dfa652482747ab694cd6ac239720af7ba66f9a27ed0e229221aada0cc88d5d6fd58f46f72eb626bd37b8e94efc8140fc148a380d69b8753d296355d450a4c606dfa652482747ab694cd6ac23972"
        :> <<10, 9, 11, 3, 6, 14, 5, 10, 4, 2, 12, 14, 4, 2, 4, 13, 15, 5, 11, 5, 10, 9, 3, 4, 4, 8, 12, 13, 4, 14, 3, 9, 12, 9, 12, 4, 13, 14, 15, 0, 3, 7, 1, 9, 10, 4, 14, 13, 4, 9, 15, 0, 1, 8, 6, 5, 5, 10, 7, 14, 6, 15, 9, 7>>))))
    @@
    ((("(None, 5)140fc148a380d69b8753d296355d450a4c606dfa652482747ab694cd6ac239720af7ba66f9a27ed0e229221aada0cc88d5d6fd58f46f72eb626bd37b8e94efc87d3c95f98bd2b66af7c1d3a16cad13e01562539e02afc9695b86a5416092645f"
        :> <<9, 12, 8, 10, 12, 9, 14, 13, 10, 12, 3, 3, 12, 7, 13, 3, 0, 15, 0, 11, 5, 4, 1, 12, 4, 0, 6, 11, 8, 8, 10, 13, 13, 7, 3, 2, 2, 2, 6, 7, 9, 13, 15, 5, 12, 6, 15, 6, 4, 11, 5, 7, 4, 2, 4, 12, 0, 14, 5, 10, 13, 13, 5, 10>>)
    @@
    (("(None, 5)140fc148a380d69b8753d296355d450a4c606dfa652482747ab694cd6ac239720f953d12a939fe4ef354fff77564841627136a6bf3667b256c4a5cb6768788da"
        :> <<9, 9, 5, 14, 2, 2, 9, 0, 8, 10, 6, 8, 4, 6, 14, 6, 6, 7, 10, 3, 12, 7, 4, 4, 9, 11, 8, 10, 11, 1, 7, 0, 3, 12, 1, 15, 3, 4, 11, 13, 0, 1, 8, 8, 0, 7, 8, 12, 9, 13, 14, 6, 6, 14, 9, 7, 6, 3, 15, 8, 12, 3, 0, 9>>)
    @@
    ("(None, 5)140fc148a380d69b8753d296355d450a4c606dfa652482747ab694cd6ac239720f953d12a939fe4ef354fff77564841627136a6bf3667b256c4a5cb6768788da0af7ba66f9a27ed0e229221aada0cc88d5d6fd58f46f72eb626bd37b8e94efc8"
        :> <<9, 1, 8, 14, 7, 7, 3, 0, 15, 8, 2, 11, 10, 6, 7, 11, 5, 2, 2, 15, 13, 4, 6, 2, 12, 5, 7, 11, 8, 8, 2, 11, 10, 2, 8, 8, 2, 4, 10, 8, 14, 14, 13, 0, 10, 0, 9, 2, 5, 4, 3, 2, 4, 13, 0, 6, 14, 5, 13, 1, 5, 15, 5, 0>>)))
    @@
    ((("(None, 5)140fc148a380d69b8753d296355d450a4c606dfa652482747ab694cd6ac239720f953d12a939fe4ef354fff77564841627136a6bf3667b256c4a5cb6768788da0f953d12a939fe4ef354fff77564841627136a6bf3667b256c4a5cb6768788da"
        :> <<3, 15, 15, 3, 7, 10, 11, 15, 13, 14, 6, 5, 5, 3, 9, 11, 12, 7, 10, 14, 3, 5, 13, 3, 1, 2, 15, 14, 0, 2, 12, 3, 12, 12, 5, 4, 2, 0, 15, 12, 4, 15, 13, 8, 0, 11, 9, 9, 5, 6, 0, 15, 8, 6, 5, 8, 2, 9, 0, 3, 8, 4, 6, 2>>)
    @@
    ("(None, 5)140fc148a380d69b8753d296355d450a4c606dfa652482747ab694cd6ac239720f953d12a939fe4ef354fff77564841627136a6bf3667b256c4a5cb6768788da140fc148a380d69b8753d296355d450a4c606dfa652482747ab694cd6ac23972"
        :> <<12, 4, 3, 12, 15, 6, 0, 8, 4, 4, 13, 8, 2, 13, 13, 4, 1, 13, 3, 5, 12, 1, 15, 0, 14, 11, 5, 4, 14, 5, 1, 1, 11, 4, 6, 8, 4, 0, 6, 0, 3, 9, 11, 6, 6, 1, 6, 7, 15, 11, 5, 13, 14, 9, 2, 13, 11, 2, 13, 5, 13, 4, 3, 3>>))
    @@
    (("(None, 5)140fc148a380d69b8753d296355d450a4c606dfa652482747ab694cd6ac239720f953d12a939fe4ef354fff77564841627136a6bf3667b256c4a5cb6768788da7d3c95f98bd2b66af7c1d3a16cad13e01562539e02afc9695b86a5416092645f"
        :> <<7, 9, 5, 5, 7, 9, 14, 12, 0, 8, 10, 7, 13, 6, 5, 8, 7, 4, 1, 14, 4, 0, 13, 11, 11, 8, 12, 3, 11, 2, 13, 12, 7, 1, 12, 2, 11, 10, 13, 9, 3, 11, 3, 13, 15, 9, 4, 14, 2, 5, 9, 2, 10, 2, 14, 7, 7, 1, 10, 11, 7, 0, 1, 15>>)
    @@
    ("(None, 5)140fc148a380d69b8753d296355d450a4c606dfa652482747ab694cd6ac23972140fc148a380d69b8753d296355d450a4c606dfa652482747ab694cd6ac23972"
        :> <<14, 15, 9, 3, 10, 14, 1, 10, 11, 2, 13, 10, 7, 12, 6, 0, 3, 12, 6, 3, 7, 6, 14, 7, 6, 7, 3, 15, 4, 15, 3, 1, 10, 11, 12, 5, 10, 14, 3, 0, 4, 4, 12, 7, 1, 1, 15, 15, 15, 1, 13, 5, 13, 14, 11, 2, 11, 10, 4, 15, 10, 8, 8, 0>>))))))
    @@
    ((((("(None, 5)140fc148a380d69b8753d296355d450a4c606dfa652482747ab694cd6ac23972140fc148a380d69b8753d296355d450a4c606dfa652482747ab694cd6ac239720af7ba66f9a27ed0e229221aada0cc88d5d6fd58f46f72eb626bd37b8e94efc8"
        :> <<5, 1, 8, 12, 6, 3, 4, 7, 7, 4, 14, 5, 1, 5, 11, 9, 7, 4, 13, 10, 8, 15, 15, 8, 3, 2, 7, 10, 2, 7, 8, 8, 6, 3, 0, 11, 7, 15, 7, 15, 0, 6, 0, 3, 12, 10, 6, 4, 10, 4, 15, 5, 14, 10, 2, 9, 6, 1, 14, 11, 15, 8, 14, 5>>)
    @@
    (("(None, 5)140fc148a380d69b8753d296355d450a4c606dfa652482747ab694cd6ac23972140fc148a380d69b8753d296355d450a4c606dfa652482747ab694cd6ac239720f953d12a939fe4ef354fff77564841627136a6bf3667b256c4a5cb6768788da"
        :> <<0, 0, 9, 13, 15, 6, 7, 3, 1, 13, 15, 15, 13, 3, 10, 5, 11, 8, 0, 15, 10, 15, 5, 3, 12, 6, 3, 0, 10, 13, 7, 0, 13, 5, 9, 10, 6, 7, 7, 0, 6, 12, 6, 6, 7, 2, 14, 15, 7, 8, 1, 8, 6, 8, 13, 15, 0, 3, 14, 14, 0, 8, 7, 14>>)
    @@
    ("(None, 5)140fc148a380d69b8753d296355d450a4c606dfa652482747ab694cd6ac23972140fc148a380d69b8753d296355d450a4c606dfa652482747ab694cd6ac23972140fc148a380d69b8753d296355d450a4c606dfa652482747ab694cd6ac23972"
        :> <<3, 15, 0, 2, 12, 10, 3, 15, 14, 11, 6, 9, 0, 1, 14, 12, 3, 9, 5, 4, 6, 13, 14, 2, 11, 3, 8, 0, 4, 1, 2, 13, 15, 12, 3, 12, 9, 6, 11, 0, 5, 2, 13, 6, 14, 0, 2, 0, 5, 14, 1, 14, 13, 6, 14, 7, 14, 3, 15, 13, 15, 10, 10, 11>>)))
    @@
    (("(None, 5)140fc148a380d69b8753d296355d450a4c606dfa652482747ab694cd6ac23972140fc148a380d69b8753d296355d450a4c606dfa652482747ab694cd6ac239727d3c95f98bd2b66af7c1d3a16cad13e01562539e02afc9695b86a5416092645f"
        :> <<14, 9, 3, 5, 3, 6, 15, 1, 14, 3, 11, 5, 13, 5, 11, 1, 8, 9, 10, 12, 7, 9, 13, 13, 6, 9, 2, 15, 11, 6, 11, 2, 4, 0, 13, 14, 1, 6, 2, 6, 9, 1, 3, 8, 0, 5, 1, 3, 14, 10, 10, 6, 8, 14, 9, 5, 6, 0, 3, 10, 6, 15, 8, 2>>)
    @@
    (("(None, 5)140fc148a380d69b8753d296355d450a4c606dfa652482747ab694cd6ac239727d3c95f98bd2b66af7c1d3a16cad13e01562539e02afc9695b86a5416092645f"
        :> <<4, 14, 13, 11, 11, 10, 2, 11, 13, 6, 8, 0, 0, 14, 1, 9, 10, 10, 6, 2, 11, 11, 12, 13, 12, 11, 11, 10, 6, 0, 1, 12, 13, 10, 3, 15, 12, 4, 8, 1, 13, 9, 2, 15, 13, 2, 8, 9, 14, 2, 11, 11, 7, 8, 11, 14, 3, 5, 11, 6, 11, 12, 6, 8>>)
    @@
    ("(None, 5)140fc148a380d69b8753d296355d450a4c606dfa652482747ab694cd6ac239727d3c95f98bd2b66af7c1d3a16cad13e01562539e02afc9695b86a5416092645f0af7ba66f9a27ed0e229221aada0cc88d5d6fd58f46f72eb626bd37b8e94efc8"
        :> <<10, 9, 2, 9, 10, 0, 12, 11, 4, 15, 4, 13, 5, 7, 3, 5, 2, 5, 13, 2, 13, 8, 8, 4, 15, 9, 3, 9, 2, 4, 8, 4, 4, 2, 8, 11, 13, 7, 13, 6, 15, 13, 6, 10, 14, 0, 3, 14, 0, 5, 8, 8, 10, 14, 14, 7, 12, 13, 11, 0, 13, 11, 3, 2>>))))
    @@
    ((("(None, 5)140fc148a380d69b8753d296355d450a4c606dfa652482747ab694cd6ac239727d3c95f98bd2b66af7c1d3a16cad13e01562539e02afc9695b86a5416092645f0f953d12a939fe4ef354fff77564841627136a6bf3667b256c4a5cb6768788da"
        :> <<4, 2, 13, 4, 6, 0, 8, 10, 3, 14, 7, 8, 10, 2, 2, 7, 2, 6, 15, 0, 4, 0, 10, 3, 13, 13, 10, 2, 15, 7, 0, 2, 11, 14, 15, 2, 14, 13, 8, 7, 13, 5, 2, 13, 0, 1, 11, 14, 0, 3, 5, 10, 12, 2, 14, 12, 14, 6, 12, 3, 13, 6, 13, 1>>)
    @@
    (("(None, 5)140fc148a380d69b8753d296355d450a4c606dfa652482747ab694cd6ac239727d3c95f98bd2b66af7c1d3a16cad13e01562539e02afc9695b86a5416092645f140fc148a380d69b8753d296355d450a4c606dfa652482747ab694cd6ac23972"
        :> <<4, 6, 7, 7, 9, 10, 15, 2, 10, 9, 14, 13, 1, 15, 9, 4, 6, 3, 14, 12, 7, 1, 15, 10, 11, 12, 6, 15, 2, 0, 10, 12, 0, 1, 11, 13, 9, 10, 10, 11, 13, 3, 2, 7, 8, 14, 8, 10, 5, 8, 13, 15, 15, 10, 12, 8, 9, 1, 11, 4, 14, 4, 0, 14>>)
    @@
    ("(None, 5)140fc148a380d69b8753d296355d450a4c606dfa652482747ab694cd6ac239727d3c95f98bd2b66af7c1d3a16cad13e01562539e02afc9695b86a5416092645f7d3c95f98bd2b66af7c1d3a16cad13e01562539e02afc9695b86a5416092645f"
        :> <<13, 8, 12, 9, 10, 12, 14, 3, 12, 9, 7, 8, 14, 8, 14, 2, 2, 3, 15, 8, 11, 12, 3, 8, 1, 10, 4, 0, 15, 1, 14, 4, 5, 11, 7, 11, 13, 7, 14, 13, 15, 11, 14, 0, 9, 12, 12, 9, 6, 4, 7, 5, 12, 11, 4, 7, 14, 4, 14, 12, 13, 7, 13, 11>>)))
    @@
    ((("(None, 5)7d3c95f98bd2b66af7c1d3a16cad13e01562539e02afc9695b86a5416092645f"
        :> <<12, 14, 3, 10, 9, 12, 10, 8, 8, 10, 13, 9, 9, 10, 9, 1, 15, 1, 0, 1, 6, 5, 8, 5, 11, 2, 11, 10, 10, 11, 5, 11, 13, 5, 11, 8, 0, 15, 7, 0, 8, 11, 10, 12, 11, 9, 3, 5, 11, 7, 11, 4, 8, 6, 3, 13, 12, 3, 3, 6, 7, 9, 12, 13>>)
    @@
    ("(None, 5)7d3c95f98bd2b66af7c1d3a16cad13e01562539e02afc9695b86a5416092645f0af7ba66f9a27ed0e229221aada0cc88d5d6fd58f46f72eb626bd37b8e94efc8"
        :> <<14, 3, 4, 13, 3, 0, 14, 14, 15, 8, 7, 15, 3, 6, 15, 5, 13, 6, 13, 3, 3, 0, 10, 4, 5, 14, 11, 7, 9, 0, 8, 5, 9, 0, 6, 4, 5, 15, 3, 3, 12, 0, 6, 6, 15, 14, 7, 7, 7, 7, 10, 6, 11, 4, 7, 3, 13, 6, 7, 7, 11, 5, 10, 8>>))
    @@
    (("(None, 5)7d3c95f98bd2b66af7c1d3a16cad13e01562539e02afc9695b86a5416092645f0af7ba66f9a27ed0e229221aada0cc88d5d6fd58f46f72eb626bd37b8e94efc80af7ba66f9a27ed0e229221aada0cc88d5d6fd58f46f72eb626bd37b8e94efc8"
        :> <<9, 9, 3, 7, 8, 1, 6, 14, 10, 8, 14, 11, 13, 7, 0, 6, 12, 0, 14, 3, 8, 9, 10, 3, 4, 9, 8, 5, 11, 3, 8, 3, 13, 3, 4, 10, 8, 13, 12, 6, 0, 10, 2, 7, 4, 7, 2, 8, 3, 3, 9, 7, 3, 10, 15, 13, 2, 9, 12, 9, 4, 7, 13, 1>>)
    @@
    ("(None, 5)7d3c95f98bd2b66af7c1d3a16cad13e01562539e02afc9695b86a5416092645f0af7ba66f9a27ed0e229221aada0cc88d5d6fd58f46f72eb626bd37b8e94efc80f953d12a939fe4ef354fff77564841627136a6bf3667b256c4a5cb6768788da"
        :> <<1, 8, 2, 3, 7, 0, 0, 7, 1, 14, 13, 13, 3, 15, 1, 15, 12, 11, 13, 8, 14, 14, 15, 9, 13, 2, 8, 7, 12, 13, 10, 13, 6, 13, 1, 15, 5, 1, 4, 10, 13, 5, 15, 14, 2, 7, 12, 8, 1, 12, 12, 12, 7, 10, 1, 1, 9, 6, 6, 10, 14, 12, 13, 12>>)))))
    @@
    (((("(None, 5)7d3c95f98bd2b66af7c1d3a16cad13e01562539e02afc9695b86a5416092645f0af7ba66f9a27ed0e229221aada0cc88d5d6fd58f46f72eb626bd37b8e94efc8140fc148a380d69b8753d296355d450a4c606dfa652482747ab694cd6ac23972"
        :> <<12, 15, 7, 3, 15, 8, 12, 9, 4, 14, 13, 11, 11, 14, 8, 7, 4, 15, 1, 11, 2, 11, 4, 15, 1, 15, 2, 0, 8, 11, 13, 8, 15, 14, 3, 0, 3, 14, 7, 15, 1, 3, 7, 1, 4, 15, 13, 4, 9, 5, 5, 1, 7, 2, 5, 10, 14, 9, 12, 1, 7, 12, 15, 10>>)
    @@
    (("(None, 5)7d3c95f98bd2b66af7c1d3a16cad13e01562539e02afc9695b86a5416092645f0af7ba66f9a27ed0e229221aada0cc88d5d6fd58f46f72eb626bd37b8e94efc87d3c95f98bd2b66af7c1d3a16cad13e01562539e02afc9695b86a5416092645f"
        :> <<9, 12, 14, 14, 8, 0, 5, 8, 1, 11, 11, 13, 3, 2, 6, 4, 0, 12, 12, 2, 6, 2, 5, 13, 4, 10, 5, 10, 15, 11, 15, 13, 6, 4, 3, 12, 11, 7, 13, 8, 6, 10, 3, 15, 4, 8, 12, 7, 0, 4, 10, 14, 5, 14, 5, 8, 5, 5, 2, 14, 11, 15, 0, 8>>)
    @@
    ("(None, 5)7d3c95f98bd2b66af7c1d3a16cad13e01562539e02afc9695b86a5416092645f0f953d12a939fe4ef354fff77564841627136a6bf3667b256c4a5cb6768788da"
        :> <<8, 14, 15, 4, 12, 10, 14, 15, 0, 8, 5, 13, 10, 1, 2, 10, 14, 7, 10, 11, 3, 5, 5, 15, 9, 10, 1, 14, 6, 10, 15, 8, 3, 4, 9, 14, 3, 1, 7, 0, 10, 7, 3, 12, 2, 0, 14, 3, 5, 6, 7, 10, 10, 10, 12, 10, 4, 3, 14, 11, 10, 3, 15, 8>>)))
    @@
    (("(None, 5)7d3c95f98bd2b66af7c1d3a16cad13e01562539e02afc9695b86a5416092645f0f953d12a939fe4ef354fff77564841627136a6bf3667b256c4a5cb6768788da0af7ba66f9a27ed0e229221aada0cc88d5d6fd58f46f72eb626bd37b8e94efc8"
        :> <<4, 4, 14, 5, 2, 14, 12, 12, 13, 0, 15, 9, 8, 12, 13, 13, 9, 3, 14, 14, 4, 2, 10, 0, 13, 14, 4, 11, 4, 8, 5, 4, 10, 8, 3, 12, 14, 7, 1, 7, 2, 14, 3, 11, 6, 4, 8, 4, 5, 8, 4, 2, 5, 11, 9, 10, 4, 3, 11, 11, 9, 1, 4, 12>>)
    @@
    (("(None, 5)7d3c95f98bd2b66af7c1d3a16cad13e01562539e02afc9695b86a5416092645f0f953d12a939fe4ef354fff77564841627136a6bf3667b256c4a5cb6768788da0f953d12a939fe4ef354fff77564841627136a6bf3667b256c4a5cb6768788da"
        :> <<0, 8, 3, 7, 14, 9, 9, 5, 13, 5, 0, 8, 3, 12, 2, 4, 13, 4, 10, 3, 11, 3, 15, 11, 7, 3, 2, 1, 4, 4, 10, 4, 8, 14, 11, 12, 7, 0, 10, 14, 0, 2, 2, 12, 0, 8, 2, 10, 2, 14, 12, 15, 5, 0, 10, 8, 5, 10, 11, 1, 15, 8, 8, 3>>)
    @@
    ("(None, 5)7d3c95f98bd2b66af7c1d3a16cad13e01562539e02afc9695b86a5416092645f0f953d12a939fe4ef354fff77564841627136a6bf3667b256c4a5cb6768788da140fc148a380d69b8753d296355d450a4c606dfa652482747ab694cd6ac23972"
        :> <<9, 9, 0, 10, 14, 4, 12, 6, 14, 4, 10, 6, 0, 3, 8, 15, 7, 1, 12, 8, 9, 8, 0, 6, 5, 11, 13, 3, 4, 2, 7, 14, 7, 9, 10, 5, 9, 5, 4, 2, 5, 10, 6, 10, 6, 3, 0, 12, 3, 5, 0, 1, 7, 10, 7, 6, 9, 8, 5, 9, 5, 13, 8, 15>>))))
    @@
    ((("(None, 5)7d3c95f98bd2b66af7c1d3a16cad13e01562539e02afc9695b86a5416092645f0f953d12a939fe4ef354fff77564841627136a6bf3667b256c4a5cb6768788da7d3c95f98bd2b66af7c1d3a16cad13e01562539e02afc9695b86a5416092645f"
        :> <<12, 12, 2, 6, 13, 13, 1, 2, 9, 12, 2, 9, 4, 9, 2, 10, 14, 9, 15, 2, 4, 0, 14, 1, 2, 13, 13, 8, 13, 0, 13, 3, 0, 9, 3, 4, 3, 14, 9, 1, 5, 9, 14, 3, 4, 11, 6, 4, 4, 10, 7, 14, 10, 0, 10, 3, 0, 8, 8, 11, 14, 4, 9, 12>>)
    @@
    (("(None, 5)7d3c95f98bd2b66af7c1d3a16cad13e01562539e02afc9695b86a5416092645f140fc148a380d69b8753d296355d450a4c606dfa652482747ab694cd6ac23972"
        :> <<15, 5, 4, 0, 3, 7, 14, 13, 3, 7, 11, 7, 12, 15, 14, 11, 15, 13, 3, 1, 5, 12, 6, 6, 0, 12, 7, 1, 3, 13, 10, 6, 5, 3, 6, 4, 9, 3, 14, 15, 12, 5, 6, 1, 15, 14, 15, 1, 10, 13, 2, 6, 6, 10, 10, 4, 14, 4, 5, 12, 2, 11, 12, 3>>)
    @@
    ("(None, 5)7d3c95f98bd2b66af7c1d3a16cad13e01562539e02afc9695b86a5416092645f140fc148a380d69b8753d296355d450a4c606dfa652482747ab694cd6ac239720af7ba66f9a27ed0e229221aada0cc88d5d6fd58f46f72eb626bd37b8e94efc8"
        :> <<11, 4, 2, 3, 4, 4, 9, 7, 12, 5, 7, 11, 0, 14, 14, 5, 11, 4, 8, 2, 1, 4, 11, 2, 8, 1, 8, 6, 6, 13, 10, 8, 2, 14, 3, 11, 7, 2, 1, 14, 11, 12, 1, 13, 6, 15, 13, 1, 1, 5, 6, 11, 4, 4, 3, 1, 13, 7, 2, 12, 13, 6, 1, 6>>)))
    @@
    ((("(None, 5)7d3c95f98bd2b66af7c1d3a16cad13e01562539e02afc9695b86a5416092645f140fc148a380d69b8753d296355d450a4c606dfa652482747ab694cd6ac239720f953d12a939fe4ef354fff77564841627136a6bf3667b256c4a5cb6768788da"
        :> <<9, 3, 11, 13, 12, 2, 14, 11, 4, 1, 13, 10, 5, 15, 8, 10, 7, 14, 13, 12, 6, 9, 2, 8, 3, 8, 15, 10, 15, 8, 10, 7, 2, 6, 13, 13, 5, 4, 3, 5, 5, 12, 14, 9, 14, 8, 0, 15, 10, 13, 3, 3, 2, 10, 15, 4, 9, 15, 4, 11, 6, 0, 9, 3>>)
    @@
    ("(None, 5)7d3c95f98bd2b66af7c1d3a16cad13e01562539e02afc9695b86a5416092645f140fc148a380d69b8753d296355d450a4c606dfa652482747ab694cd6ac23972140fc148a380d69b8753d296355d450a4c606dfa652482747ab694cd6ac23972"
        :> <<3, 1, 2, 1, 8, 1, 11, 2, 4, 6, 15, 3, 0, 14, 6, 14, 6, 6, 6, 13, 0, 9, 7, 14, 14, 7, 0, 15, 2, 3, 3, 0, 12, 10, 9, 9, 10, 0, 0, 0, 6, 1, 5, 12, 12, 14, 12, 3, 3, 1, 10, 5, 5, 6, 14, 1, 4, 1, 0, 2, 8, 7, 1, 1>>))
    @@
    (("(None, 5)7d3c95f98bd2b66af7c1d3a16cad13e01562539e02afc9695b86a5416092645f140fc148a380d69b8753d296355d450a4c606dfa652482747ab694cd6ac239727d3c95f98bd2b66af7c1d3a16cad13e01562539e02afc9695b86a5416092645f"
        :> <<5, 8, 11, 3, 11, 14, 13, 15, 2, 10, 8, 1, 15, 7, 3, 10, 4, 3, 15, 6, 2, 1, 11, 10, 7, 0, 10, 7, 2, 9, 5, 4, 5, 15, 2, 7, 15, 0, 1, 8, 1, 2, 2, 8, 8, 0, 9, 7, 5, 1, 8, 15, 5, 3, 5, 7, 10, 14, 0, 0, 9, 4, 0, 11>>)
    @@
    ("(None, 5)7d3c95f98bd2b66af7c1d3a16cad13e01562539e02afc9695b86a5416092645f7d3c95f98bd2b66af7c1d3a16cad13e01562539e02afc9695b86a5416092645f"
        :> <<5, 12, 7, 8, 11, 6, 4, 12, 0, 7, 7, 10, 10, 8, 8, 15, 9, 15, 8, 3, 7, 1, 11, 5, 0, 7, 4, 6, 11, 8, 12, 4, 6, 1, 10, 8, 13, 15, 4, 6, 14, 7, 4, 5, 15, 0, 13, 3, 11, 4, 13, 10, 4, 0, 13, 9, 12, 8, 14, 4, 0, 14, 1, 7>>)))))))
    @@
    (((((("(None, 5)7d3c95f98bd2b66af7c1d3a16cad13e01562539e02afc9695b86a5416092645f7d3c95f98bd2b66af7c1d3a16cad13e01562539e02afc9695b86a5416092645f0af7ba66f9a27ed0e229221aada0cc88d5d6fd58f46f72eb626bd37b8e94efc8"
        :> <<1, 15, 5, 0, 14, 15, 2, 10, 0, 1, 0, 4, 12, 8, 1, 3, 2, 14, 15, 9, 12, 1, 5, 7, 10, 12, 1, 2, 7, 12, 1, 14, 15, 9, 14, 5, 5, 13, 14, 14, 10, 7, 5, 9, 15, 12, 8, 4, 4, 1, 5, 2, 8, 5, 0, 13, 13, 13, 14, 0, 0, 8, 7, 12>>)
    @@
    (("(None, 5)7d3c95f98bd2b66af7c1d3a16cad13e01562539e02afc9695b86a5416092645f7d3c95f98bd2b66af7c1d3a16cad13e01562539e02afc9695b86a5416092645f0f953d12a939fe4ef354fff77564841627136a6bf3667b256c4a5cb6768788da"
        :> <<0, 5, 5, 15, 8, 12, 12, 12, 9, 3, 7, 13, 11, 9, 3, 5, 3, 4, 5, 13, 11, 6, 8, 6, 0, 9, 6, 6, 4, 9, 2, 0, 3, 12, 2, 10, 2, 5, 11, 2, 12, 10, 7, 0, 1, 2, 13, 0, 8, 2, 0, 8, 11, 7, 0, 6, 10, 1, 13, 1, 7, 3, 0, 3>>)
    @@
    ("(None, 5)7d3c95f98bd2b66af7c1d3a16cad13e01562539e02afc9695b86a5416092645f7d3c95f98bd2b66af7c1d3a16cad13e01562539e02afc9695b86a5416092645f140fc148a380d69b8753d296355d450a4c606dfa652482747ab694cd6ac23972"
        :> <<0, 8, 0, 14, 4, 1, 0, 6, 11, 0, 10, 8, 13, 15, 1, 3, 11, 14, 3, 4, 1, 1, 9, 0, 3, 2, 13, 7, 1, 7, 15, 12, 12, 2, 7, 15, 7, 12, 13, 12, 2, 11, 7, 6, 1, 3, 12, 13, 5, 7, 12, 4, 12, 11, 6, 11, 1, 1, 8, 12, 8, 1, 9, 8>>)))
    @@
    (("(None, 5)7d3c95f98bd2b66af7c1d3a16cad13e01562539e02afc9695b86a5416092645f7d3c95f98bd2b66af7c1d3a16cad13e01562539e02afc9695b86a5416092645f7d3c95f98bd2b66af7c1d3a16cad13e01562539e02afc9695b86a5416092645f"
        :> <<15, 8, 2, 12, 7, 4, 6, 14, 10, 0, 7, 13, 13, 13, 12, 11, 2, 10, 10, 10, 15, 5, 4, 7, 13, 2, 10, 8, 8, 2, 2, 2, 4, 5, 15, 8, 1, 4, 3, 2, 12, 14, 12, 2, 10, 10, 12, 7, 5, 13, 3, 2, 7, 12, 3, 10, 5, 6, 1, 6, 3, 6, 8, 8>>)
    @@
    (("(None, 6)"
        :> <<5, 14, 11, 3, 7, 3, 13, 3, 12, 7, 9, 9, 3, 3, 3, 10, 8, 0, 15, 5, 15, 4, 1, 1, 3, 3, 9, 10, 4, 8, 12, 15, 8, 12, 7, 1, 6, 5, 14, 11, 0, 0, 9, 1, 3, 1, 11, 2, 13, 4, 12, 7, 3, 7, 3, 4, 7, 2, 15, 13, 6, 13, 13, 9>>)
    @@
    ("(None, 6)0af7ba66f9a27ed0e229221aada0cc88d5d6fd58f46f72eb626bd37b8e94efc8"
        :> <<2, 2, 1, 8, 15, 0, 6, 2, 13, 13, 12, 8, 6, 2, 3, 14, 8, 8, 14, 1, 11, 1, 8, 6, 15, 9, 9, 13, 12, 13, 15, 0, 13, 11, 4, 14, 10, 2, 2, 14, 12, 10, 11, 6, 11, 13, 4, 8, 14, 5, 7, 2, 6, 11, 0, 13, 4, 4, 13, 3, 2, 13, 11, 15>>))))
    @@
    ((("(None, 6)0af7ba66f9a27ed0e229221aada0cc88d5d6fd58f46f72eb626bd37b8e94efc80af7ba66f9a27ed0e229221aada0cc88d5d6fd58f46f72eb626bd37b8e94efc8"
        :> <<9, 9, 5, 14, 4, 2, 2, 3, 6, 5, 10, 6, 3, 12, 9, 12, 13, 11, 13, 11, 1, 4, 15, 2, 2, 8, 13, 11, 8, 4, 3, 2, 11, 14, 6, 13, 1, 10, 7, 4, 9, 10, 13, 8, 15, 6, 11, 5, 4, 6, 14, 5, 14, 13, 15, 11, 13, 10, 11, 10, 9, 7, 1, 6>>)
    @@
    (("(None, 6)0af7ba66f9a27ed0e229221aada0cc88d5d6fd58f46f72eb626bd37b8e94efc80af7ba66f9a27ed0e229221aada0cc88d5d6fd58f46f72eb626bd37b8e94efc80af7ba66f9a27ed0e229221aada0cc88d5d6fd58f46f72eb626bd37b8e94efc8"
        :> <<2, 8, 5, 10, 7, 7, 0, 13, 2, 10, 5, 10, 3, 1, 11, 12, 2, 8, 12, 11, 13, 12, 12, 14, 15, 14, 6, 15, 11, 0, 2, 14, 11, 3, 7, 11, 11, 8, 10, 5, 12, 10, 3, 3, 14, 12, 1, 7, 9, 7, 13, 15, 11, 12, 0, 6, 1, 6, 11, 3, 0, 10, 3, 11>>)
    @@
    ("(None, 6)0af7ba66f9a27ed0e229221aada0cc88d5d6fd58f46f72eb626bd37b8e94efc80af7ba66f9a27ed0e229221aada0cc88d5d6fd58f46f72eb626bd37b8e94efc80f953d12a939fe4ef354fff77564841627136a6bf3667b256c4a5cb6768788da"
        :> <<1, 10, 1, 7, 2, 9, 15, 10, 10, 11, 6, 14, 12, 6, 0, 13, 14, 10, 4, 10, 14, 1, 0, 10, 13, 9, 6, 9, 6, 2, 0, 5, 13, 4, 7, 9, 13, 12, 10, 4, 15, 15, 15, 10, 5, 4, 11, 8, 7, 2, 12, 4, 6, 14, 14, 4, 2, 7, 7, 3, 6, 7, 8, 6>>)))
    @@
    ((("(None, 6)0af7ba66f9a27ed0e229221aada0cc88d5d6fd58f46f72eb626bd37b8e94efc80af7ba66f9a27ed0e229221aada0cc88d5d6fd58f46f72eb626bd37b8e94efc8140fc148a380d69b8753d296355d450a4c606dfa652482747ab694cd6ac23972"
        :> <<10, 11, 12, 9, 0, 7, 11, 8, 3, 0, 2, 2, 12, 5, 9, 2, 5, 10, 8, 8, 7, 15, 13, 5, 8, 3, 15, 1, 0, 7, 9, 1, 10, 12, 15, 11, 5, 8, 8, 4, 15, 12, 2, 7, 3, 9, 3, 6, 12, 4, 15, 15, 3, 1, 9, 3, 7, 7, 15, 13, 0, 12, 10, 4>>)
    @@
    ("(None, 6)0af7ba66f9a27ed0e229221aada0cc88d5d6fd58f46f72eb626bd37b8e94efc80af7ba66f9a27ed0e229221aada0cc88d5d6fd58f46f72eb626bd37b8e94efc87d3c95f98bd2b66af7c1d3a16cad13e01562539e02afc9695b86a5416092645f"
        :> <<7, 12, 8, 0, 12, 2, 3, 3, 8, 5, 14, 1, 15, 5, 0, 13, 15, 13, 15, 6, 5, 2, 4, 10, 14, 10, 3, 13, 6, 2, 7, 4, 1, 10, 11, 3, 7, 8, 3, 10, 10, 7, 10, 3, 8, 2, 13, 9, 14, 11, 12, 9, 14, 14, 4, 14, 9, 14, 1, 14, 11, 6, 9, 8>>))
    @@
    (("(None, 6)0af7ba66f9a27ed0e229221aada0cc88d5d6fd58f46f72eb626bd37b8e94efc80f953d12a939fe4ef354fff77564841627136a6bf3667b256c4a5cb6768788da"
        :> <<9, 4, 1, 6, 10, 6, 14, 10, 4, 8, 5, 9, 10, 13, 5, 5, 7, 5, 0, 12, 6, 9, 9, 15, 10, 6, 9, 10, 15, 5, 11, 13, 0, 8, 13, 0, 13, 12, 11, 7, 0, 0, 9, 13, 5, 14, 8, 3, 0, 15, 13, 12, 2, 7, 13, 9, 10, 14, 14, 15, 12, 8, 2, 8>>)
    @@
    ("(None, 6)0af7ba66f9a27ed0e229221aada0cc88d5d6fd58f46f72eb626bd37b8e94efc80f953d12a939fe4ef354fff77564841627136a6bf3667b256c4a5cb6768788da0af7ba66f9a27ed0e229221aada0cc88d5d6fd58f46f72eb626bd37b8e94efc8"
        :> <<13, 10, 4, 8, 8, 13, 8, 7, 5, 2, 0, 13, 8, 12, 0, 8, 7, 4, 8, 3, 12, 3, 7, 13, 15, 7, 11, 4, 10, 12, 14, 15, 0, 12, 12, 12, 14, 8, 5, 3, 10, 9, 10, 11, 5, 5, 0, 7, 9, 0, 6, 12, 13, 0, 7, 2, 3, 15, 2, 12, 7, 4, 6, 13>>)))))
    @@
    (((("(None, 6)0af7ba66f9a27ed0e229221aada0cc88d5d6fd58f46f72eb626bd37b8e94efc80f953d12a939fe4ef354fff77564841627136a6bf3667b256c4a5cb6768788da0f953d12a939fe4ef354fff77564841627136a6bf3667b256c4a5cb6768788da"
        :> <<14, 0, 8, 0, 15, 5, 1, 12, 9, 4, 15, 14, 13, 9, 14, 6, 8, 5, 13, 5, 15, 1, 6, 11, 11, 11, 15, 4, 13, 1, 11, 3, 1, 4, 11, 12, 3, 4, 12, 11, 9, 9, 13, 8, 15, 12, 10, 9, 0, 4, 7, 13, 15, 11, 2, 8, 11, 13, 3, 10, 3, 6, 8, 8>>)
    @@
    (("(None, 6)0af7ba66f9a27ed0e229221aada0cc88d5d6fd58f46f72eb626bd37b8e94efc80f953d12a939fe4ef354fff77564841627136a6bf3667b256c4a5cb6768788da140fc148a380d69b8753d296355d450a4c606dfa652482747ab694cd6ac23972"
        :> <<14, 2, 5, 14, 5, 11, 9, 15, 4, 0, 7, 8, 15, 7, 11, 0, 8, 3, 7, 2, 9, 14, 12, 13, 14, 11, 1, 11, 8, 7, 3, 0, 11, 6, 8, 15, 3, 9, 1, 12, 7, 15, 6, 14, 15, 9, 4, 13, 15, 8, 3, 2, 6, 10, 3, 3, 1, 2, 7, 3, 12, 1, 3, 7>>)
    @@
    ("(None, 6)0af7ba66f9a27ed0e229221aada0cc88d5d6fd58f46f72eb626bd37b8e94efc80f953d12a939fe4ef354fff77564841627136a6bf3667b256c4a5cb6768788da7d3c95f98bd2b66af7c1d3a16cad13e01562539e02afc9695b86a5416092645f"
        :> <<6, 7, 2, 2, 5, 11, 3, 5, 8, 10, 4, 4, 1, 4, 3, 0, 1, 0, 7, 13, 3, 7, 12, 11, 3, 15, 2, 11, 14, 15, 1, 10, 2, 12, 11, 12, 1, 10, 13, 14, 11, 7, 2, 0, 1, 0, 14, 5, 12, 12, 2, 14, 8, 2, 9, 5, 1, 10, 6, 13, 12, 7, 8, 6>>)))
    @@
    (("(None, 6)0af7ba66f9a27ed0e229221aada0cc88d5d6fd58f46f72eb626bd37b8e94efc8140fc148a380d69b8753d296355d450a4c606dfa652482747ab694cd6ac23972"
        :> <<1, 10, 0, 0, 13, 5, 2, 15, 8, 6, 5, 8, 4, 14, 2, 5, 7, 2, 1, 5, 5, 15, 6, 3, 8, 12, 5, 7, 13, 11, 5, 8, 14, 4, 15, 0, 0, 5, 15, 2, 8, 8, 14, 2, 8, 7, 3, 8, 7, 2, 4, 14, 6, 0, 11, 12, 7, 2, 1, 14, 5, 4, 7, 1>>)
    @@
    (("(None, 6)0af7ba66f9a27ed0e229221aada0cc88d5d6fd58f46f72eb626bd37b8e94efc8140fc148a380d69b8753d296355d450a4c606dfa652482747ab694cd6ac239720af7ba66f9a27ed0e229221aada0cc88d5d6fd58f46f72eb626bd37b8e94efc8"
        :> <<12, 9, 8, 12, 9, 3, 7, 8, 8, 6, 8, 0, 14, 1, 1, 11, 6, 0, 3, 9, 1, 9, 4, 14, 13, 13, 3, 8, 12, 9, 11, 3, 8, 13, 2, 10, 10, 1, 6, 3, 3, 0, 2, 11, 7, 9, 5, 5, 2, 7, 4, 2, 4, 0, 15, 13, 4, 1, 12, 5, 9, 1, 8, 2>>)
    @@
    ("(None, 6)0af7ba66f9a27ed0e229221aada0cc88d5d6fd58f46f72eb626bd37b8e94efc8140fc148a380d69b8753d296355d450a4c606dfa652482747ab694cd6ac239720f953d12a939fe4ef354fff77564841627136a6bf3667b256c4a5cb6768788da"
        :> <<14, 6, 5, 15, 3, 14, 15, 10, 5, 2, 6, 2, 9, 1, 9, 10, 0, 3, 10, 4, 9, 12, 6, 9, 1, 9, 15, 2, 15, 2, 12, 4, 1, 7, 9, 10, 5, 12, 15, 11, 0, 13, 7, 12, 1, 3, 15, 11, 0, 8, 8, 15, 13, 1, 11, 10, 14, 0, 10, 10, 1, 12, 6, 14>>))))
    @@
    ((("(None, 6)0af7ba66f9a27ed0e229221aada0cc88d5d6fd58f46f72eb626bd37b8e94efc8140fc148a380d69b8753d296355d450a4c606dfa652482747ab694cd6ac23972140fc148a380d69b8753d296355d450a4c606dfa652482747ab694cd6ac23972"
        :> <<10, 10, 7, 2, 4, 7, 14, 8, 4, 11, 13, 7, 3, 4, 9, 5, 7, 4, 2, 6, 3, 10, 12, 9, 10, 1, 7, 3, 7, 5, 4, 3, 7, 6, 4, 7, 13, 2, 9, 8, 4, 7, 8, 9, 5, 1, 4, 12, 14, 0, 13, 3, 5, 14, 2, 15, 10, 10, 11, 3, 6, 13, 6, 6>>)
    @@
    (("(None, 6)0af7ba66f9a27ed0e229221aada0cc88d5d6fd58f46f72eb626bd37b8e94efc8140fc148a380d69b8753d296355d450a4c606dfa652482747ab694cd6ac239727d3c95f98bd2b66af7c1d3a16cad13e01562539e02afc9695b86a5416092645f"
        :> <<12, 11, 8, 0, 5, 1, 4, 12, 12, 12, 1, 0, 11, 1, 13, 9, 4, 2, 0, 15, 5, 9, 7, 2, 10, 8, 12, 10, 2, 11, 7, 13, 5, 12, 7, 6, 4, 1, 15, 6, 1, 2, 14, 10, 5, 9, 10, 9, 9, 7, 4, 3, 13, 2, 1, 13, 2, 11, 12, 13, 13, 7, 9, 4>>)
    @@
    ("(None, 6)0af7ba66f9a27ed0e229221aada0cc88d5d6fd58f46f72eb626bd37b8e94efc87d3c95f98bd2b66af7c1d3a16cad13e01562539e02afc9695b86a5416092645f"
        :> <<14, 10, 11, 5, 12, 0, 11, 4, 3, 12, 2, 3, 9, 12, 5, 15, 8, 12, 13, 2, 8, 4, 9, 10, 3, 10, 3, 7, 4, 9, 8, 2, 6, 1, 6, 5, 3, 3, 6, 7, 0, 8, 13, 10, 14, 5, 10, 2, 10, 0, 0, 6, 7, 14, 15, 4, 14, 13, 1, 0, 15, 2, 12, 14>>)))
    @@
    ((("(None, 6)0af7ba66f9a27ed0e229221aada0cc88d5d6fd58f46f72eb626bd37b8e94efc87d3c95f98bd2b66af7c1d3a16cad13e01562539e02afc9695b86a5416092645f0af7ba66f9a27ed0e229221aada0cc88d5d6fd58f46f72eb626bd37b8e94efc8"
        :> <<9, 10, 12, 15, 9, 2, 4, 12, 9, 8, 12, 7, 15, 13, 15, 14, 7, 13, 14, 7, 1, 4, 12, 15, 14, 2, 9, 13, 4, 12, 3, 1, 6, 14, 0, 1, 2, 2, 0, 12, 1, 11, 14, 15, 0, 0, 0, 1, 7, 8, 7, 15, 4, 0, 13, 8, 3, 15, 11, 15, 1, 11, 2, 5>>)
    @@
    ("(None, 6)0af7ba66f9a27ed0e229221aada0cc88d5d6fd58f46f72eb626bd37b8e94efc87d3c95f98bd2b66af7c1d3a16cad13e01562539e02afc9695b86a5416092645f0f953d12a939fe4ef354fff77564841627136a6bf3667b256c4a5cb6768788da"
        :> <<5, 6, 10, 15, 4, 6, 9, 3, 8, 6, 13, 15, 10, 1, 3, 5, 0, 15, 10, 5, 15, 11, 11, 6, 0, 14, 2, 10, 14, 15, 6, 4, 15, 3, 8, 14, 5, 14, 9, 12, 2, 7, 3, 6, 9, 15, 5, 3, 1, 6, 14, 14, 12, 8, 14, 9, 0, 10, 2, 12, 2, 7, 6, 11>>))
    @@
    (("(None, 6)0af7ba66f9a27ed0e229221aada0cc88d5d6fd58f46f72eb626bd37b8e94efc87d3c95f98bd2b66af7c1d3a16cad13e01562539e02afc9695b86a5416092645f140fc148a380d69b8753d296355d450a4c606dfa652482747ab694cd6ac23972"
        :> <<7, 15, 0, 3, 15, 4, 14, 14, 12, 10, 1, 11, 11, 11, 5, 12, 1, 14, 11, 15, 7, 12, 7, 5, 14, 4, 2, 9, 13, 4, 13, 15, 15, 2, 3, 3, 13, 5, 2, 11, 13, 5, 12, 8, 1, 11, 7, 4, 5, 2, 15, 12, 13, 13, 3, 11, 14, 0, 3, 6, 5, 7, 7, 14>>)
    @@
    ("(None, 6)0af7ba66f9a27ed0e229221aada0cc88d5d6fd58f46f72eb626bd37b8e94efc87d3c95f98bd2b66af7c1d3a16cad13e01562539e02afc9695b86a5416092645f7d3c95f98bd2b66af7c1d3a16cad13e01562539e02afc9695b86a5416092645f"
        :> <<9, 6, 0, 2, 12, 4, 4, 9, 8, 9, 4, 2, 3, 5, 10, 12, 7, 15, 7, 12, 5, 4, 2, 12, 11, 11, 15, 10, 12, 12, 4, 8, 0, 4, 15, 3, 10, 15, 8, 6, 5, 7, 5, 10, 3, 9, 8, 8, 12, 11, 8, 10, 3, 13, 6, 12, 5, 10, 3, 11, 10, 9, 9, 2>>))))))
    @@
    ((((("(None, 6)0f953d12a939fe4ef354fff77564841627136a6bf3667b256c4a5cb6768788da"
        :> <<4, 6, 7, 13, 5, 15, 8, 14, 8, 1, 11, 15, 12, 2, 5, 2, 3, 13, 8, 12, 7, 12, 12, 8, 2, 15, 2, 3, 10, 1, 11, 13, 11, 12, 1, 7, 15, 4, 8, 1, 0, 5, 13, 11, 5, 13, 11, 12, 5, 14, 3, 9, 3, 13, 10, 13, 4, 5, 8, 4, 8, 4, 8, 10>>)
    @@
    (("(None, 6)0f953d12a939fe4ef354fff77564841627136a6bf3667b256c4a5cb6768788da0af7ba66f9a27ed0e229221aada0cc88d5d6fd58f46f72eb626bd37b8e94efc8"
        :> <<12, 15, 2, 12, 10, 8, 5, 10, 11, 13, 6, 6, 15, 2, 8, 4, 0, 6, 13, 9, 15, 12, 5, 1, 6, 10, 9, 8, 6, 13, 2, 12, 7, 6, 5, 14, 6, 5, 5, 12, 8, 13, 9, 0, 10, 6, 15, 4, 8, 0, 0, 1, 8, 7, 5, 3, 7, 12, 14, 3, 4, 13, 6, 10>>)
    @@
    ("(None, 6)0f953d12a939fe4ef354fff77564841627136a6bf3667b256c4a5cb6768788da0af7ba66f9a27ed0e229221aada0cc88d5d6fd58f46f72eb626bd37b8e94efc80af7ba66f9a27ed0e229221aada0cc88d5d6fd58f46f72eb626bd37b8e94efc8"
        :> <<12, 13, 3, 2, 13, 4, 3, 9, 1, 3, 14, 4, 3, 2, 9, 4, 14, 12, 2, 6, 3, 12, 12, 13, 9, 1, 11, 15, 11, 8, 8, 1, 10, 6, 7, 11, 15, 14, 2, 5, 0, 1, 2, 9, 3, 11, 15, 7, 11, 5, 6, 6, 1, 12, 12, 15, 14, 1, 6, 3, 13, 14, 7, 12>>)))
    @@
    (("(None, 6)0f953d12a939fe4ef354fff77564841627136a6bf3667b256c4a5cb6768788da0af7ba66f9a27ed0e229221aada0cc88d5d6fd58f46f72eb626bd37b8e94efc80f953d12a939fe4ef354fff77564841627136a6bf3667b256c4a5cb6768788da"
        :> <<6, 10, 3, 3, 1, 1, 6, 5, 5, 15, 13, 4, 13, 0, 6, 3, 1, 4, 3, 13, 2, 9, 11, 0, 13, 4, 3, 13, 9, 11, 7, 2, 4, 3, 7, 10, 5, 4, 6, 2, 9, 6, 9, 4, 7, 4, 13, 5, 5, 6, 1, 2, 11, 6, 13, 1, 4, 10, 0, 5, 8, 13, 8, 0>>)
    @@
    (("(None, 6)0f953d12a939fe4ef354fff77564841627136a6bf3667b256c4a5cb6768788da0af7ba66f9a27ed0e229221aada0cc88d5d6fd58f46f72eb626bd37b8e94efc8140fc148a380d69b8753d296355d450a4c606dfa652482747ab694cd6ac23972"
        :> <<10, 15, 3, 9, 0, 15, 2, 15, 0, 1, 1, 7, 13, 9, 13, 15, 0, 7, 9, 2, 5, 0, 14, 1, 12, 14, 9, 13, 2, 2, 1, 8, 12, 5, 15, 12, 0, 12, 0, 4, 10, 9, 9, 15, 2, 11, 2, 9, 9, 5, 13, 8, 6, 4, 8, 15, 3, 10, 15, 13, 4, 10, 1, 11>>)
    @@
    ("(None, 6)0f953d12a939fe4ef354fff77564841627136a6bf3667b256c4a5cb6768788da0af7ba66f9a27ed0e229221aada0cc88d5d6fd58f46f72eb626bd37b8e94efc87d3c95f98bd2b66af7c1d3a16cad13e01562539e02afc9695b86a5416092645f"
        :> <<8, 0, 11, 12, 14, 2, 15, 3, 8, 4, 2, 2, 3, 13, 4, 0, 3, 1, 12, 8, 3, 6, 1, 11, 11, 15, 0, 5, 13, 8, 7, 10, 4, 2, 13, 10, 2, 14, 14, 11, 7, 2, 3, 11, 4, 7, 12, 4, 4, 3, 7, 13, 4, 1, 0, 1, 4, 10, 15, 12, 1, 4, 5, 5>>))))
    @@
    ((("(None, 6)0f953d12a939fe4ef354fff77564841627136a6bf3667b256c4a5cb6768788da0f953d12a939fe4ef354fff77564841627136a6bf3667b256c4a5cb6768788da"
        :> <<4, 12, 12, 10, 15, 12, 1, 15, 6, 8, 0, 14, 13, 4, 10, 10, 7, 11, 4, 11, 7, 4, 0, 6, 1, 13, 1, 4, 15, 11, 15, 10, 5, 10, 15, 5, 6, 8, 9, 14, 5, 15, 1, 14, 4, 8, 6, 1, 12, 9, 5, 8, 14, 8, 0, 3, 11, 0, 6, 9, 14, 5, 10, 9>>)
    @@
    (("(None, 6)0f953d12a939fe4ef354fff77564841627136a6bf3667b256c4a5cb6768788da0f953d12a939fe4ef354fff77564841627136a6bf3667b256c4a5cb6768788da0af7ba66f9a27ed0e229221aada0cc88d5d6fd58f46f72eb626bd37b8e94efc8"
        :> <<8, 4, 1, 10, 10, 1, 10, 1, 4, 10, 0, 15, 2, 12, 15, 9, 10, 13, 7, 5, 2, 5, 6, 8, 2, 6, 12, 6, 0, 12, 0, 3, 12, 8, 11, 10, 2, 14, 12, 12, 5, 4, 12, 9, 9, 0, 0, 7, 13, 2, 11, 2, 0, 8, 8, 14, 3, 10, 10, 12, 4, 14, 4, 7>>)
    @@
    ("(None, 6)0f953d12a939fe4ef354fff77564841627136a6bf3667b256c4a5cb6768788da0f953d12a939fe4ef354fff77564841627136a6bf3667b256c4a5cb6768788da0f953d12a939fe4ef354fff77564841627136a6bf3667b256c4a5cb6768788da"
        :> <<11, 12, 10, 2, 11, 12, 7, 12, 14, 11, 5, 13, 13, 9, 1, 4, 0, 14, 11, 5, 7, 13, 2, 0, 12, 11, 14, 5, 1, 9, 9, 3, 9, 3, 14, 7, 12, 2, 1, 12, 1, 12, 15, 4, 9, 6, 9, 14, 12, 5, 9, 5, 8, 1, 6, 6, 10, 2, 6, 8, 15, 1, 14, 0>>)))
    @@
    ((("(None, 6)0f953d12a939fe4ef354fff77564841627136a6bf3667b256c4a5cb6768788da0f953d12a939fe4ef354fff77564841627136a6bf3667b256c4a5cb6768788da140fc148a380d69b8753d296355d450a4c606dfa652482747ab694cd6ac23972"
        :> <<1, 12, 0, 11, 6, 0, 10, 10, 9, 14, 6, 10, 3, 13, 12, 5, 12, 0, 10, 8, 1, 12, 13, 0, 8, 9, 4, 11, 4, 8, 12, 13, 14, 6, 4, 0, 4, 15, 10, 12, 7, 11, 0, 4, 12, 7, 1, 8, 12, 5, 8, 4, 14, 4, 1, 1, 11, 1, 2, 7, 0, 11, 7, 5>>)
    @@
    ("(None, 6)0f953d12a939fe4ef354fff77564841627136a6bf3667b256c4a5cb6768788da0f953d12a939fe4ef354fff77564841627136a6bf3667b256c4a5cb6768788da7d3c95f98bd2b66af7c1d3a16cad13e01562539e02afc9695b86a5416092645f"
        :> <<3, 4, 10, 6, 9, 6, 13, 7, 9, 11, 14, 15, 7, 4, 2, 5, 6, 13, 9, 10, 4, 0, 13, 10, 1, 5, 4, 8, 14, 15, 3, 14, 11, 11, 13, 7, 8, 9, 6, 5, 15, 13, 13, 15, 1, 3, 3, 15, 0, 8, 1, 1, 11, 13, 9, 6, 13, 2, 12, 12, 2, 12, 10, 10>>))
    @@
    (("(None, 6)0f953d12a939fe4ef354fff77564841627136a6bf3667b256c4a5cb6768788da140fc148a380d69b8753d296355d450a4c606dfa652482747ab694cd6ac23972"
        :> <<0, 3, 10, 10, 2, 11, 1, 10, 6, 9, 6, 13, 7, 13, 7, 6, 2, 7, 1, 3, 4, 8, 12, 7, 3, 0, 6, 2, 5, 3, 12, 0, 5, 13, 9, 13, 11, 3, 7, 7, 3, 14, 9, 10, 12, 9, 9, 3, 15, 12, 13, 4, 0, 15, 2, 9, 2, 4, 11, 12, 0, 3, 7, 11>>)
    @@
    ("(None, 6)0f953d12a939fe4ef354fff77564841627136a6bf3667b256c4a5cb6768788da140fc148a380d69b8753d296355d450a4c606dfa652482747ab694cd6ac239720af7ba66f9a27ed0e229221aada0cc88d5d6fd58f46f72eb626bd37b8e94efc8"
        :> <<13, 3, 14, 3, 13, 1, 4, 5, 14, 12, 15, 1, 8, 6, 8, 8, 15, 6, 5, 13, 14, 15, 11, 14, 15, 8, 14, 3, 6, 13, 7, 3, 1, 1, 12, 13, 15, 1, 1, 7, 15, 5, 1, 6, 12, 7, 5, 7, 9, 12, 2, 14, 7, 1, 3, 8, 15, 14, 10, 3, 14, 4, 12, 10>>)))))
    @@
    (((("(None, 6)0f953d12a939fe4ef354fff77564841627136a6bf3667b256c4a5cb6768788da140fc148a380d69b8753d296355d450a4c606dfa652482747ab694cd6ac239720f953d12a939fe4ef354fff77564841627136a6bf3667b256c4a5cb6768788da"
        :> <<0, 11, 3, 6, 6, 11, 0, 12, 2, 6, 2, 11, 8, 7, 12, 4, 15, 5, 12, 8, 12, 1, 1, 15, 9, 1, 12, 10, 13, 6, 2, 5, 15, 4, 8, 9, 14, 6, 10, 12, 1, 15, 1, 6, 7, 15, 15, 9, 3, 0, 8, 10, 15, 5, 7, 15, 13, 15, 0, 5, 3, 6, 14, 5>>)
    @@
    (("(None, 6)0f953d12a939fe4ef354fff77564841627136a6bf3667b256c4a5cb6768788da140fc148a380d69b8753d296355d450a4c606dfa652482747ab694cd6ac23972140fc148a380d69b8753d296355d450a4c606dfa652482747ab694cd6ac23972"
        :> <<11, 6, 14, 4, 15, 6, 5, 6, 14, 10, 10, 1, 13, 11, 14, 8, 12, 12, 2, 1, 11, 4, 14, 1, 5, 0, 8, 3, 3, 11, 5, 7, 11, 12, 10, 5, 5, 4, 5, 12, 15, 2, 8, 7, 13, 3, 1, 7, 11, 15, 8, 6, 1, 12, 13, 10, 1, 8, 4, 10, 6, 11, 8, 1>>)
    @@
    ("(None, 6)0f953d12a939fe4ef354fff77564841627136a6bf3667b256c4a5cb6768788da140fc148a380d69b8753d296355d450a4c606dfa652482747ab694cd6ac239727d3c95f98bd2b66af7c1d3a16cad13e01562539e02afc9695b86a5416092645f"
        :> <<5, 4, 7, 6, 8, 5, 4, 5, 10, 7, 11, 6, 5, 7, 8, 3, 13, 9, 2, 12, 6, 3, 0, 0, 15, 1, 2, 10, 10, 2, 3, 15, 0, 4, 6, 15, 3, 0, 3, 1, 10, 7, 6, 14, 2, 10, 13, 14, 13, 14, 7, 7, 7, 4, 12, 4, 2, 2, 2, 3, 11, 8, 13, 0>>)))
    @@
    (("(None, 6)0f953d12a939fe4ef354fff77564841627136a6bf3667b256c4a5cb6768788da7d3c95f98bd2b66af7c1d3a16cad13e01562539e02afc9695b86a5416092645f"
        :> <<9, 14, 4, 11, 12, 6, 11, 14, 12, 12, 1, 15, 10, 10, 5, 13, 1, 0, 5, 9, 6, 3, 3, 12, 7, 5, 7, 10, 13, 9, 10, 7, 0, 11, 14, 10, 14, 3, 3, 0, 11, 6, 2, 7, 4, 11, 9, 11, 9, 6, 5, 13, 14, 9, 12, 10, 11, 9, 7, 12, 14, 5, 6, 14>>)
    @@
    (("(None, 6)0f953d12a939fe4ef354fff77564841627136a6bf3667b256c4a5cb6768788da7d3c95f98bd2b66af7c1d3a16cad13e01562539e02afc9695b86a5416092645f0af7ba66f9a27ed0e229221aada0cc88d5d6fd58f46f72eb626bd37b8e94efc8"
        :> <<0, 3, 12, 8, 12, 3, 0, 15, 4, 9, 12, 0, 5, 8, 8, 7, 8, 13, 12, 1, 5, 4, 2, 2, 12, 12, 5, 2, 7, 15, 8, 7, 11, 7, 14, 11, 15, 5, 13, 15, 0, 10, 11, 13, 10, 12, 9, 14, 2, 4, 9, 6, 15, 1, 7, 13, 1, 5, 5, 2, 15, 13, 11, 11>>)
    @@
    ("(None, 6)0f953d12a939fe4ef354fff77564841627136a6bf3667b256c4a5cb6768788da7d3c95f98bd2b66af7c1d3a16cad13e01562539e02afc9695b86a5416092645f0f953d12a939fe4ef354fff77564841627136a6bf3667b256c4a5cb6768788da"
        :> <<9, 10, 1, 0, 10, 8, 1, 10, 4, 15, 15, 14, 3, 3, 8, 15, 8, 8, 7, 12, 5, 0, 12, 5, 8, 13, 3, 6, 8, 9, 11, 12, 9, 11, 1, 10, 13, 3, 4, 8, 15, 12, 2, 4, 7, 13, 3, 0, 10, 1, 7, 14, 11, 9, 6, 2, 7, 2, 4, 9, 14, 7, 11, 4>>))))
    @@
    ((("(None, 6)0f953d12a939fe4ef354fff77564841627136a6bf3667b256c4a5cb6768788da7d3c95f98bd2b66af7c1d3a16cad13e01562539e02afc9695b86a5416092645f140fc148a380d69b8753d296355d450a4c606dfa652482747ab694cd6ac23972"
        :> <<13, 13, 14, 10, 1, 9, 14, 6, 14, 12, 11, 12, 14, 6, 9, 12, 4, 3, 0, 7, 15, 6, 10, 3, 7, 7, 3, 8, 2, 15, 4, 12, 7, 6, 6, 5, 15, 9, 10, 4, 10, 2, 0, 7, 1, 9, 12, 4, 15, 10, 15, 3, 15, 1, 3, 7, 6, 0, 6, 14, 8, 5, 13, 6>>)
    @@
    (("(None, 6)0f953d12a939fe4ef354fff77564841627136a6bf3667b256c4a5cb6768788da7d3c95f98bd2b66af7c1d3a16cad13e01562539e02afc9695b86a5416092645f7d3c95f98bd2b66af7c1d3a16cad13e01562539e02afc9695b86a5416092645f"
        :> <<3, 9, 8, 15, 4, 4, 7, 2, 11, 15, 9, 1, 11, 14, 2, 4, 4, 13, 9, 4, 1, 8, 13, 9, 7, 1, 3, 7, 1, 11, 13, 9, 15, 15, 0, 5, 14, 0, 12, 13, 2, 12, 3, 10, 8, 1, 10, 12, 8, 12, 10, 14, 12, 12, 13, 3, 4, 2, 7, 6, 1, 5, 1, 13>>)
    @@
    ("(None, 6)140fc148a380d69b8753d296355d450a4c606dfa652482747ab694cd6ac23972"
        :> <<3, 6, 15, 11, 8, 13, 6, 9, 3, 10, 0, 4, 6, 10, 13, 4, 3, 3, 14, 6, 14, 2, 9, 13, 10, 5, 11, 1, 7, 13, 2, 6, 14, 3, 2, 3, 10, 11, 14, 0, 10, 13, 14, 8, 14, 4, 3, 4, 2, 6, 13, 9, 8, 1, 6, 3, 2, 10, 10, 14, 9, 5, 9, 0>>)))
    @@
    ((("(None, 6)140fc148a380d69b8753d296355d450a4c606dfa652482747ab694cd6ac239720af7ba66f9a27ed0e229221aada0cc88d5d6fd58f46f72eb626bd37b8e94efc8"
        :> <<0, 6, 15, 1, 9, 7, 7, 10, 11, 3, 3, 4, 8, 8, 3, 10, 12, 13, 7, 1, 15, 8, 7, 11, 13, 9, 5, 11, 0, 11, 11, 1, 13, 4, 4, 12, 1, 9, 6, 14, 14, 5, 0, 14, 11, 8, 1, 2, 12, 0, 4, 15, 1, 4, 9, 12, 8, 11, 13, 4, 8, 7, 0, 5>>)
    @@
    ("(None, 6)140fc148a380d69b8753d296355d450a4c606dfa652482747ab694cd6ac239720af7ba66f9a27ed0e229221aada0cc88d5d6fd58f46f72eb626bd37b8e94efc80af7ba66f9a27ed0e229221aada0cc88d5d6fd58f46f72eb626bd37b8e94efc8"
        :> <<13, 5, 0, 6, 10, 12, 8, 7, 7, 15, 4, 4, 13, 9, 2, 1, 8, 9, 5, 13, 0, 1, 6, 2, 5, 2, 11, 0, 9, 9, 12, 4, 14, 2, 5, 9, 14, 6, 3, 14, 14, 1, 6, 11, 1, 9, 2, 6, 3, 9, 15, 6, 5, 13, 3, 1, 12, 6, 15, 14, 15, 5, 5, 11>>))
    @@
    (("(None, 6)140fc148a380d69b8753d296355d450a4c606dfa652482747ab694cd6ac239720af7ba66f9a27ed0e229221aada0cc88d5d6fd58f46f72eb626bd37b8e94efc80f953d12a939fe4ef354fff77564841627136a6bf3667b256c4a5cb6768788da"
        :> <<13, 2, 6, 15, 5, 8, 0, 14, 13, 15, 15, 11, 0, 5, 15, 13, 13, 12, 8, 14, 6, 11, 1, 6, 9, 3, 12, 7, 6, 6, 11, 13, 1, 14, 5, 9, 13, 14, 5, 15, 0, 4, 14, 4, 7, 15, 4, 14, 0, 3, 11, 13, 9, 4, 10, 6, 14, 7, 6, 13, 2, 2, 3, 10>>)
    @@
    ("(None, 6)140fc148a380d69b8753d296355d450a4c606dfa652482747ab694cd6ac239720af7ba66f9a27ed0e229221aada0cc88d5d6fd58f46f72eb626bd37b8e94efc8140fc148a380d69b8753d296355d450a4c606dfa652482747ab694cd6ac23972"
        :> <<3, 2, 11, 5, 12, 3, 15, 15, 13, 13, 10, 4, 1, 10, 9, 0, 11, 13, 6, 2, 14, 13, 6, 4, 15, 11, 14, 12, 12, 10, 13, 8, 12, 0, 14, 9, 15, 15, 13, 3, 2, 14, 8, 13, 8, 8, 7, 13, 15, 10, 0, 2, 9, 11, 11, 7, 14, 14, 9, 8, 12, 13, 4, 2>>))))))))
    @@
    ((((((("(None, 6)140fc148a380d69b8753d296355d450a4c606dfa652482747ab694cd6ac239720af7ba66f9a27ed0e229221aada0cc88d5d6fd58f46f72eb626bd37b8e94efc87d3c95f98bd2b66af7c1d3a16cad13e01562539e02afc9695b86a5416092645f"
        :> <<6, 12, 11, 9, 7, 13, 15, 10, 7, 1, 7, 10, 0, 7, 10, 15, 14, 1, 11, 10, 9, 15, 11, 9, 8, 13, 8, 15, 9, 13, 12, 2, 14, 11, 6, 15, 3, 10, 12, 14, 4, 15, 14, 7, 13, 10, 3, 4, 9, 12, 11, 3, 6, 3, 2, 9, 9, 4, 13, 9, 7, 2, 5, 5>>)
    @@
    (("(None, 6)140fc148a380d69b8753d296355d450a4c606dfa652482747ab694cd6ac239720f953d12a939fe4ef354fff77564841627136a6bf3667b256c4a5cb6768788da"
        :> <<11, 9, 9, 9, 6, 1, 9, 12, 5, 1, 2, 13, 1, 3, 3, 9, 2, 11, 11, 13, 13, 9, 11, 10, 6, 12, 3, 2, 4, 11, 10, 3, 3, 4, 5, 15, 4, 15, 6, 6, 10, 6, 7, 6, 10, 5, 1, 1, 14, 8, 0, 3, 9, 13, 0, 15, 11, 13, 12, 10, 1, 14, 3, 1>>)
    @@
    ("(None, 6)140fc148a380d69b8753d296355d450a4c606dfa652482747ab694cd6ac239720f953d12a939fe4ef354fff77564841627136a6bf3667b256c4a5cb6768788da0af7ba66f9a27ed0e229221aada0cc88d5d6fd58f46f72eb626bd37b8e94efc8"
        :> <<9, 4, 0, 11, 6, 3, 10, 7, 8, 7, 15, 6, 9, 7, 7, 10, 12, 7, 15, 8, 6, 11, 1, 10, 10, 5, 10, 10, 13, 0, 9, 13, 0, 11, 7, 5, 6, 3, 11, 1, 13, 6, 6, 3, 9, 5, 13, 9, 7, 13, 13, 0, 2, 11, 8, 10, 4, 8, 8, 4, 15, 13, 13, 2>>)))
    @@
    (("(None, 6)140fc148a380d69b8753d296355d450a4c606dfa652482747ab694cd6ac239720f953d12a939fe4ef354fff77564841627136a6bf3667b256c4a5cb6768788da0f953d12a939fe4ef354fff77564841627136a6bf3667b256c4a5cb6768788da"
        :> <<9, 8, 4, 7, 1, 12, 5, 10, 10, 7, 4, 10, 13, 6, 9, 14, 9, 2, 6, 13, 6, 7, 10, 15, 5, 2, 10, 1, 3, 3, 4, 7, 14, 14, 8, 12, 15, 7, 4, 1, 0, 0, 13, 4, 4, 10, 8, 4, 9, 3, 9, 8, 2, 12, 11, 1, 11, 6, 5, 0, 14, 4, 8, 8>>)
    @@
    (("(None, 6)140fc148a380d69b8753d296355d450a4c606dfa652482747ab694cd6ac239720f953d12a939fe4ef354fff77564841627136a6bf3667b256c4a5cb6768788da140fc148a380d69b8753d296355d450a4c606dfa652482747ab694cd6ac23972"
        :> <<9, 8, 12, 8, 0, 4, 7, 6, 11, 12, 8, 10, 6, 2, 5, 6, 15, 14, 15, 11, 14, 9, 4, 7, 14, 3, 6, 10, 5, 10, 10, 8, 1, 8, 7, 5, 4, 11, 5, 0, 1, 11, 8, 0, 6, 7, 12, 8, 5, 8, 8, 9, 15, 15, 15, 5, 6, 5, 4, 1, 15, 9, 0, 14>>)
    @@
    ("(None, 6)140fc148a380d69b8753d296355d450a4c606dfa652482747ab694cd6ac239720f953d12a939fe4ef354fff77564841627136a6bf3667b256c4a5cb6768788da7d3c95f98bd2b66af7c1d3a16cad13e01562539e02afc9695b86a5416092645f"
        :> <<13, 10, 10, 15, 12, 12, 4, 5, 15, 5, 13, 0, 2, 7, 10, 1, 0, 6, 10, 2, 1, 8, 6, 12, 11, 13, 12, 10, 1, 11, 6, 4, 3, 14, 7, 6, 6, 9, 5, 7, 0, 15, 10, 6, 10, 8, 3, 5, 12, 14, 12, 6, 0, 7, 8, 0, 15, 0, 1, 13, 5, 6, 6, 2>>))))
    @@
    ((("(None, 6)140fc148a380d69b8753d296355d450a4c606dfa652482747ab694cd6ac23972140fc148a380d69b8753d296355d450a4c606dfa652482747ab694cd6ac23972"
        :> <<1, 10, 11, 10, 5, 5, 14, 11, 10, 12, 1, 4, 2, 9, 2, 11, 10, 11, 9, 13, 0, 10, 7, 15, 7, 0, 6, 10, 13, 5, 11, 3, 4, 8, 15, 13, 0, 4, 15, 8, 14, 7, 6, 3, 7, 1, 15, 15, 13, 7, 13, 6, 7, 1, 0, 10, 2, 1, 8, 9, 8, 7, 2, 3>>)
    @@
    (("(None, 6)140fc148a380d69b8753d296355d450a4c606dfa652482747ab694cd6ac23972140fc148a380d69b8753d296355d450a4c606dfa652482747ab694cd6ac239720af7ba66f9a27ed0e229221aada0cc88d5d6fd58f46f72eb626bd37b8e94efc8"
        :> <<6, 13, 6, 0, 5, 6, 13, 12, 5, 13, 14, 4, 10, 15, 11, 6, 14, 0, 5, 11, 7, 9, 6, 8, 8, 11, 11, 1, 4, 8, 15, 6, 10, 5, 10, 4, 8, 9, 15, 2, 4, 10, 15, 0, 5, 13, 13, 0, 5, 2, 14, 9, 11, 12, 8, 6, 10, 12, 2, 7, 9, 14, 10, 5>>)
    @@
    ("(None, 6)140fc148a380d69b8753d296355d450a4c606dfa652482747ab694cd6ac23972140fc148a380d69b8753d296355d450a4c606dfa652482747ab694cd6ac239720f953d12a939fe4ef354fff77564841627136a6bf3667b256c4a5cb6768788da"
        :> <<3, 9, 0, 1, 2, 15, 1, 7, 8, 14, 0, 7, 9, 14, 1, 9, 10, 10, 5, 10, 4, 15, 10, 6, 0, 7, 11, 7, 6, 14, 8, 10, 3, 4, 11, 15, 7, 6, 5, 7, 14, 8, 2, 11, 11, 1, 3, 7, 8, 13, 10, 0, 13, 15, 9, 0, 0, 9, 0, 6, 15, 10, 3, 12>>)))
    @@
    ((("(None, 6)140fc148a380d69b8753d296355d450a4c606dfa652482747ab694cd6ac23972140fc148a380d69b8753d296355d450a4c606dfa652482747ab694cd6ac23972140fc148a380d69b8753d296355d450a4c606dfa652482747ab694cd6ac23972"
        :> <<1, 15, 13, 9, 9, 3, 4, 14, 14, 7, 14, 10, 1, 6, 14, 14, 5, 7, 1, 8, 10, 6, 6, 3, 9, 15, 1, 0, 4, 2, 5, 12, 13, 7, 9, 5, 5, 10, 2, 12, 5, 4, 4, 2, 7, 12, 11, 2, 4, 15, 15, 10, 10, 13, 1, 14, 0, 11, 12, 10, 10, 6, 8, 5>>)
    @@
    ("(None, 6)140fc148a380d69b8753d296355d450a4c606dfa652482747ab694cd6ac23972140fc148a380d69b8753d296355d450a4c606dfa652482747ab694cd6ac239727d3c95f98bd2b66af7c1d3a16cad13e01562539e02afc9695b86a5416092645f"
        :> <<9, 2, 9, 12, 9, 7, 10, 2, 7, 7, 10, 8, 13, 11, 0, 13, 12, 13, 14, 13, 15, 0, 1, 10, 3, 12, 11, 8, 3, 4, 15, 5, 6, 8, 1, 2, 12, 9, 10, 1, 15, 14, 8, 5, 2, 6, 2, 5, 12, 10, 5, 8, 11, 1, 2, 6, 2, 7, 8, 15, 7, 1, 7, 10>>))
    @@
    (("(None, 6)140fc148a380d69b8753d296355d450a4c606dfa652482747ab694cd6ac239727d3c95f98bd2b66af7c1d3a16cad13e01562539e02afc9695b86a5416092645f"
        :> <<15, 10, 2, 0, 13, 6, 8, 3, 1, 8, 6, 9, 3, 0, 14, 9, 5, 11, 1, 9, 7, 3, 1, 12, 7, 12, 13, 14, 10, 11, 3, 1, 4, 4, 6, 7, 1, 15, 14, 11, 14, 13, 11, 0, 1, 12, 10, 10, 1, 8, 6, 13, 9, 13, 15, 8, 7, 12, 3, 14, 4, 4, 0, 6>>)
    @@
    ("(None, 6)140fc148a380d69b8753d296355d450a4c606dfa652482747ab694cd6ac239727d3c95f98bd2b66af7c1d3a16cad13e01562539e02afc9695b86a5416092645f0af7ba66f9a27ed0e229221aada0cc88d5d6fd58f46f72eb626bd37b8e94efc8"
        :> <<5, 8, 3, 5, 2, 7, 4, 14, 10, 3, 14, 2, 5, 10, 2, 11, 14, 8, 9, 12, 0, 6, 13, 4, 11, 13, 7, 5, 4, 5, 4, 13, 4, 13, 4, 13, 7, 5, 1, 0, 6, 2, 13, 9, 9, 14, 12, 4, 11, 0, 1, 12, 9, 9, 7, 14, 7, 1, 12, 1, 8, 8, 8, 2>>)))))
    @@
    (((("(None, 6)140fc148a380d69b8753d296355d450a4c606dfa652482747ab694cd6ac239727d3c95f98bd2b66af7c1d3a16cad13e01562539e02afc9695b86a5416092645f0f953d12a939fe4ef354fff77564841627136a6bf3667b256c4a5cb6768788da"
        :> <<10, 10, 8, 8, 14, 4, 14, 3, 6, 3, 9, 10, 0, 13, 13, 0, 2, 0, 5, 2, 15, 6, 7, 2, 10, 1, 14, 12, 0, 8, 14, 4, 4, 11, 9, 14, 5, 12, 1, 4, 2, 13, 8, 2, 7, 10, 15, 12, 5, 3, 6, 11, 7, 7, 9, 12, 6, 8, 9, 7, 1, 13, 2, 3>>)
    @@
    (("(None, 6)140fc148a380d69b8753d296355d450a4c606dfa652482747ab694cd6ac239727d3c95f98bd2b66af7c1d3a16cad13e01562539e02afc9695b86a5416092645f140fc148a380d69b8753d296355d450a4c606dfa652482747ab694cd6ac23972"
        :> <<3, 15, 12, 11, 15, 11, 10, 1, 8, 8, 14, 11, 12, 6, 9, 3, 7, 2, 12, 6, 10, 10, 2, 2, 11, 0, 6, 3, 8, 12, 9, 15, 15, 2, 3, 14, 8, 0, 4, 14, 1, 1, 8, 4, 0, 7, 7, 2, 3, 6, 3, 10, 15, 11, 12, 12, 7, 15, 5, 0, 13, 10, 11, 3>>)
    @@
    ("(None, 6)140fc148a380d69b8753d296355d450a4c606dfa652482747ab694cd6ac239727d3c95f98bd2b66af7c1d3a16cad13e01562539e02afc9695b86a5416092645f7d3c95f98bd2b66af7c1d3a16cad13e01562539e02afc9695b86a5416092645f"
        :> <<15, 14, 2, 9, 4, 8, 2, 8, 0, 3, 2, 3, 9, 5, 15, 5, 5, 7, 1, 6, 11, 5, 15, 6, 2, 5, 9, 13, 0, 15, 8, 6, 2, 10, 5, 7, 2, 3, 12, 2, 1, 12, 5, 0, 12, 11, 6, 14, 0, 6, 7, 14, 11, 7, 4, 14, 10, 3, 12, 7, 2, 6, 6, 15>>)))
    @@
    (("(None, 6)7d3c95f98bd2b66af7c1d3a16cad13e01562539e02afc9695b86a5416092645f"
        :> <<10, 2, 12, 0, 10, 6, 4, 13, 15, 15, 7, 7, 13, 8, 1, 10, 5, 3, 10, 8, 15, 13, 15, 9, 3, 10, 13, 8, 1, 0, 10, 2, 9, 14, 3, 8, 2, 14, 0, 3, 15, 2, 7, 3, 15, 13, 6, 10, 4, 0, 1, 8, 7, 0, 3, 2, 3, 12, 9, 8, 8, 4, 9, 5>>)
    @@
    (("(None, 6)7d3c95f98bd2b66af7c1d3a16cad13e01562539e02afc9695b86a5416092645f0af7ba66f9a27ed0e229221aada0cc88d5d6fd58f46f72eb626bd37b8e94efc8"
        :> <<11, 1, 13, 12, 0, 0, 6, 14, 1, 9, 13, 14, 15, 14, 13, 14, 12, 1, 1, 4, 0, 5, 5, 0, 0, 3, 5, 13, 6, 11, 8, 0, 14, 6, 13, 12, 13, 0, 15, 10, 14, 1, 10, 7, 2, 7, 7, 6, 12, 8, 5, 7, 13, 10, 1, 2, 2, 3, 14, 3, 13, 1, 4, 7>>)
    @@
    ("(None, 6)7d3c95f98bd2b66af7c1d3a16cad13e01562539e02afc9695b86a5416092645f0af7ba66f9a27ed0e229221aada0cc88d5d6fd58f46f72eb626bd37b8e94efc80af7ba66f9a27ed0e229221aada0cc88d5d6fd58f46f72eb626bd37b8e94efc8"
        :> <<9, 12, 6, 1, 9, 5, 15, 5, 6, 8, 15, 1, 11, 6, 7, 8, 11, 6, 9, 0, 8, 13, 12, 8, 7, 15, 6, 0, 8, 10, 0, 5, 1, 15, 3, 3, 14, 4, 7, 8, 10, 7, 3, 3, 1, 13, 1, 2, 3, 9, 2, 12, 8, 5, 2, 11, 12, 7, 2, 8, 12, 13, 9, 5>>))))
    @@
    ((("(None, 6)7d3c95f98bd2b66af7c1d3a16cad13e01562539e02afc9695b86a5416092645f0af7ba66f9a27ed0e229221aada0cc88d5d6fd58f46f72eb626bd37b8e94efc80f953d12a939fe4ef354fff77564841627136a6bf3667b256c4a5cb6768788da"
        :> <<1, 14, 9, 4, 2, 10, 15, 5, 15, 11, 7, 13, 8, 0, 7, 6, 1, 3, 13, 4, 4, 4, 4, 2, 2, 1, 7, 10, 0, 7, 14, 13, 12, 6, 10, 6, 1, 9, 10, 9, 3, 11, 15, 4, 2, 15, 1, 7, 12, 11, 9, 8, 3, 14, 11, 14, 5, 9, 1, 6, 0, 6, 10, 15>>)
    @@
    (("(None, 6)7d3c95f98bd2b66af7c1d3a16cad13e01562539e02afc9695b86a5416092645f0af7ba66f9a27ed0e229221aada0cc88d5d6fd58f46f72eb626bd37b8e94efc8140fc148a380d69b8753d296355d450a4c606dfa652482747ab694cd6ac23972"
        :> <<1, 2, 5, 13, 13, 9, 6, 1, 10, 13, 14, 14, 15, 4, 15, 3, 3, 9, 5, 10, 11, 9, 10, 2, 2, 7, 11, 1, 1, 5, 9, 6, 12, 5, 0, 7, 9, 3, 5, 4, 8, 0, 6, 4, 14, 15, 8, 3, 8, 12, 15, 3, 5, 10, 2, 9, 13, 13, 5, 11, 11, 0, 4, 14>>)
    @@
    ("(None, 6)7d3c95f98bd2b66af7c1d3a16cad13e01562539e02afc9695b86a5416092645f0af7ba66f9a27ed0e229221aada0cc88d5d6fd58f46f72eb626bd37b8e94efc87d3c95f98bd2b66af7c1d3a16cad13e01562539e02afc9695b86a5416092645f"
        :> <<8, 8, 4, 0, 1, 11, 3, 11, 6, 12, 2, 9, 8, 6, 12, 15, 4, 5, 11, 4, 15, 8, 0, 9, 15, 5, 15, 11, 1, 13, 10, 12, 10, 14, 3, 10, 3, 7, 0, 8, 11, 1, 6, 11, 6, 2, 14, 13, 7, 10, 9, 1, 9, 3, 13, 7, 15, 10, 0, 1, 6, 1, 5, 7>>)))
    @@
    ((("(None, 6)7d3c95f98bd2b66af7c1d3a16cad13e01562539e02afc9695b86a5416092645f0f953d12a939fe4ef354fff77564841627136a6bf3667b256c4a5cb6768788da"
        :> <<6, 11, 5, 9, 5, 4, 12, 8, 10, 3, 2, 14, 10, 12, 4, 5, 2, 4, 3, 11, 5, 3, 9, 8, 9, 2, 14, 2, 10, 3, 8, 9, 11, 6, 1, 11, 10, 7, 1, 12, 2, 8, 14, 9, 15, 0, 3, 4, 6, 10, 12, 8, 10, 1, 3, 8, 13, 4, 7, 4, 13, 0, 6, 7>>)
    @@
    ("(None, 6)7d3c95f98bd2b66af7c1d3a16cad13e01562539e02afc9695b86a5416092645f0f953d12a939fe4ef354fff77564841627136a6bf3667b256c4a5cb6768788da0af7ba66f9a27ed0e229221aada0cc88d5d6fd58f46f72eb626bd37b8e94efc8"
        :> <<13, 14, 12, 14, 4, 15, 15, 6, 0, 1, 8, 10, 1, 4, 3, 4, 8, 12, 4, 13, 1, 13, 10, 7, 3, 15, 3, 13, 0, 15, 15, 2, 13, 13, 15, 14, 1, 12, 15, 15, 15, 15, 8, 9, 1, 1, 4, 3, 12, 15, 9, 3, 3, 8, 8, 15, 6, 3, 3, 8, 0, 15, 4, 9>>))
    @@
    (("(None, 6)7d3c95f98bd2b66af7c1d3a16cad13e01562539e02afc9695b86a5416092645f0f953d12a939fe4ef354fff77564841627136a6bf3667b256c4a5cb6768788da0f953d12a939fe4ef354fff77564841627136a6bf3667b256c4a5cb6768788da"
        :> <<15, 0, 15, 0, 2, 3, 14, 1, 14, 1, 15, 9, 7, 1, 6, 5, 8, 0, 13, 10, 0, 5, 3, 8, 7, 1, 15, 15, 7, 7, 6, 14, 0, 3, 13, 1, 14, 1, 6, 1, 0, 5, 4, 0, 11, 2, 11, 2, 5, 0, 5, 14, 9, 11, 0, 10, 4, 5, 10, 6, 10, 7, 13, 15>>)
    @@
    ("(None, 6)7d3c95f98bd2b66af7c1d3a16cad13e01562539e02afc9695b86a5416092645f0f953d12a939fe4ef354fff77564841627136a6bf3667b256c4a5cb6768788da140fc148a380d69b8753d296355d450a4c606dfa652482747ab694cd6ac23972"
        :> <<11, 0, 1, 10, 15, 9, 4, 14, 4, 14, 7, 8, 2, 8, 7, 11, 12, 4, 11, 1, 4, 7, 9, 12, 1, 15, 5, 0, 10, 1, 14, 7, 3, 1, 15, 5, 6, 9, 11, 2, 11, 5, 4, 5, 15, 4, 4, 4, 8, 8, 7, 2, 3, 1, 14, 8, 6, 6, 8, 13, 12, 2, 7, 11>>))))))
    @@
    ((((("(None, 6)7d3c95f98bd2b66af7c1d3a16cad13e01562539e02afc9695b86a5416092645f0f953d12a939fe4ef354fff77564841627136a6bf3667b256c4a5cb6768788da7d3c95f98bd2b66af7c1d3a16cad13e01562539e02afc9695b86a5416092645f"
        :> <<15, 11, 15, 2, 2, 8, 15, 9, 7, 3, 8, 15, 0, 14, 0, 4, 3, 3, 8, 4, 12, 9, 11, 14, 9, 0, 1, 12, 12, 15, 2, 1, 14, 14, 5, 14, 6, 12, 12, 4, 1, 5, 15, 15, 10, 15, 1, 4, 12, 6, 12, 8, 14, 14, 13, 13, 0, 13, 0, 6, 14, 9, 15, 7>>)
    @@
    (("(None, 6)7d3c95f98bd2b66af7c1d3a16cad13e01562539e02afc9695b86a5416092645f140fc148a380d69b8753d296355d450a4c606dfa652482747ab694cd6ac23972"
        :> <<15, 1, 14, 9, 15, 7, 9, 6, 9, 8, 14, 2, 5, 14, 3, 14, 8, 8, 11, 5, 10, 6, 0, 6, 8, 4, 13, 6, 5, 2, 13, 2, 0, 5, 9, 3, 12, 11, 7, 5, 5, 1, 8, 4, 6, 14, 1, 1, 15, 5, 10, 10, 11, 12, 10, 7, 11, 11, 9, 11, 6, 3, 12, 11>>)
    @@
    ("(None, 6)7d3c95f98bd2b66af7c1d3a16cad13e01562539e02afc9695b86a5416092645f140fc148a380d69b8753d296355d450a4c606dfa652482747ab694cd6ac239720af7ba66f9a27ed0e229221aada0cc88d5d6fd58f46f72eb626bd37b8e94efc8"
        :> <<15, 13, 15, 12, 9, 7, 11, 14, 1, 5, 4, 7, 2, 9, 1, 9, 7, 10, 10, 1, 5, 4, 3, 3, 6, 12, 13, 9, 1, 14, 9, 8, 11, 15, 6, 4, 2, 7, 3, 14, 0, 2, 4, 1, 4, 2, 1, 0, 13, 14, 10, 10, 0, 4, 7, 1, 0, 10, 14, 13, 14, 10, 10, 4>>)))
    @@
    (("(None, 6)7d3c95f98bd2b66af7c1d3a16cad13e01562539e02afc9695b86a5416092645f140fc148a380d69b8753d296355d450a4c606dfa652482747ab694cd6ac239720f953d12a939fe4ef354fff77564841627136a6bf3667b256c4a5cb6768788da"
        :> <<9, 3, 15, 12, 2, 13, 2, 6, 12, 7, 2, 1, 4, 13, 15, 0, 1, 5, 11, 9, 2, 4, 11, 15, 8, 13, 5, 2, 13, 5, 2, 3, 14, 5, 3, 5, 3, 13, 11, 3, 12, 7, 13, 1, 9, 9, 8, 6, 7, 2, 5, 13, 1, 1, 5, 8, 11, 10, 2, 8, 12, 15, 10, 10>>)
    @@
    (("(None, 6)7d3c95f98bd2b66af7c1d3a16cad13e01562539e02afc9695b86a5416092645f140fc148a380d69b8753d296355d450a4c606dfa652482747ab694cd6ac23972140fc148a380d69b8753d296355d450a4c606dfa652482747ab694cd6ac23972"
        :> <<3, 11, 3, 11, 10, 15, 1, 15, 3, 9, 6, 10, 13, 6, 2, 5, 12, 7, 0, 0, 6, 3, 11, 13, 3, 3, 7, 4, 0, 8, 13, 8, 6, 8, 1, 1, 15, 4, 1, 10, 10, 7, 15, 4, 0, 0, 12, 11, 14, 15, 10, 1, 0, 11, 0, 2, 8, 14, 2, 13, 8, 4, 0, 1>>)
    @@
    ("(None, 6)7d3c95f98bd2b66af7c1d3a16cad13e01562539e02afc9695b86a5416092645f140fc148a380d69b8753d296355d450a4c606dfa652482747ab694cd6ac239727d3c95f98bd2b66af7c1d3a16cad13e01562539e02afc9695b86a5416092645f"
        :> <<8, 5, 5, 10, 15, 7, 13, 9, 5, 15, 10, 3, 1, 12, 13, 1, 0, 15, 14, 11, 6, 2, 10, 10, 12, 14, 0, 10, 15, 3, 2, 14, 9, 0, 12, 6, 11, 15, 3, 12, 7, 10, 13, 9, 4, 5, 12, 8, 15, 7, 10, 6, 6, 12, 10, 10, 1, 14, 7, 3, 15, 8, 11, 8>>))))
    @@
    ((("(None, 6)7d3c95f98bd2b66af7c1d3a16cad13e01562539e02afc9695b86a5416092645f7d3c95f98bd2b66af7c1d3a16cad13e01562539e02afc9695b86a5416092645f"
        :> <<7, 14, 1, 14, 8, 15, 1, 9, 3, 9, 0, 5, 11, 1, 3, 11, 3, 6, 11, 1, 4, 8, 8, 1, 13, 12, 0, 4, 6, 5, 7, 6, 7, 9, 14, 9, 9, 10, 0, 2, 14, 15, 1, 0, 6, 11, 5, 5, 6, 0, 0, 5, 14, 4, 5, 14, 15, 12, 4, 7, 14, 15, 3, 13>>)
    @@
    (("(None, 6)7d3c95f98bd2b66af7c1d3a16cad13e01562539e02afc9695b86a5416092645f7d3c95f98bd2b66af7c1d3a16cad13e01562539e02afc9695b86a5416092645f0af7ba66f9a27ed0e229221aada0cc88d5d6fd58f46f72eb626bd37b8e94efc8"
        :> <<1, 10, 10, 2, 10, 2, 4, 3, 3, 14, 8, 7, 7, 9, 10, 4, 9, 8, 10, 0, 6, 3, 5, 10, 8, 6, 1, 11, 15, 6, 3, 6, 5, 4, 7, 12, 1, 2, 1, 0, 3, 3, 0, 4, 1, 14, 15, 12, 12, 8, 10, 14, 6, 1, 2, 1, 14, 12, 15, 15, 0, 6, 12, 15>>)
    @@
    ("(None, 6)7d3c95f98bd2b66af7c1d3a16cad13e01562539e02afc9695b86a5416092645f7d3c95f98bd2b66af7c1d3a16cad13e01562539e02afc9695b86a5416092645f0f953d12a939fe4ef354fff77564841627136a6bf3667b256c4a5cb6768788da"
        :> <<3, 3, 4, 7, 15, 13, 12, 6, 15, 0, 15, 5, 12, 4, 12, 6, 10, 13, 15, 12, 5, 1, 9, 11, 10, 7, 6, 9, 2, 12, 3, 6, 5, 5, 11, 0, 6, 5, 3, 5, 0, 0, 13, 8, 8, 9, 9, 1, 12, 11, 4, 1, 5, 14, 7, 14, 5, 15, 12, 1, 11, 11, 9, 9>>)))
    @@
    ((("(None, 6)7d3c95f98bd2b66af7c1d3a16cad13e01562539e02afc9695b86a5416092645f7d3c95f98bd2b66af7c1d3a16cad13e01562539e02afc9695b86a5416092645f140fc148a380d69b8753d296355d450a4c606dfa652482747ab694cd6ac23972"
        :> <<5, 14, 5, 14, 5, 15, 5, 8, 10, 0, 0, 6, 7, 11, 13, 7, 6, 11, 0, 13, 5, 11, 15, 13, 3, 13, 12, 0, 13, 15, 2, 8, 14, 4, 11, 4, 8, 8, 11, 3, 9, 14, 13, 13, 10, 4, 0, 3, 13, 1, 11, 1, 13, 4, 14, 0, 6, 9, 4, 14, 1, 10, 11, 13>>)
    @@
    ("(None, 6)7d3c95f98bd2b66af7c1d3a16cad13e01562539e02afc9695b86a5416092645f7d3c95f98bd2b66af7c1d3a16cad13e01562539e02afc9695b86a5416092645f7d3c95f98bd2b66af7c1d3a16cad13e01562539e02afc9695b86a5416092645f"
        :> <<14, 12, 7, 5, 15, 4, 2, 6, 13, 6, 15, 5, 2, 7, 5, 6, 8, 0, 14, 4, 6, 8, 3, 14, 11, 9, 3, 15, 7, 2, 14, 0, 3, 9, 4, 8, 4, 11, 5, 13, 4, 14, 11, 6, 0, 15, 15, 13, 12, 1, 4, 8, 12, 11, 5, 4, 15, 13, 14, 13, 10, 13, 12, 0>>))
    @@
    (("(None, 7)"
        :> <<0, 6, 4, 12, 6, 7, 15, 10, 12, 12, 13, 0, 12, 8, 0, 9, 9, 11, 7, 14, 11, 8, 4, 7, 14, 0, 2, 4, 14, 12, 10, 15, 7, 8, 9, 13, 3, 8, 11, 2, 13, 8, 13, 7, 5, 12, 0, 8, 2, 7, 2, 15, 12, 3, 4, 7, 9, 3, 9, 12, 15, 13, 0, 6>>)
    @@
    ("(None, 7)0af7ba66f9a27ed0e229221aada0cc88d5d6fd58f46f72eb626bd37b8e94efc8"
        :> <<15, 9, 4, 9, 1, 7, 4, 9, 3, 13, 4, 7, 5, 0, 6, 5, 12, 13, 13, 15, 8, 14, 15, 14, 13, 4, 8, 3, 10, 7, 10, 6, 11, 0, 5, 5, 7, 5, 13, 13, 4, 2, 3, 14, 13, 4, 9, 0, 5, 1, 9, 6, 1, 5, 14, 11, 1, 14, 12, 4, 0, 9, 1, 9>>)))))
    @@
    (((("(None, 7)0af7ba66f9a27ed0e229221aada0cc88d5d6fd58f46f72eb626bd37b8e94efc80af7ba66f9a27ed0e229221aada0cc88d5d6fd58f46f72eb626bd37b8e94efc8"
        :> <<7, 7, 0, 3, 6, 3, 11, 10, 7, 11, 12, 4, 1, 4, 7, 0, 14, 8, 6, 11, 4, 13, 7, 8, 4, 8, 10, 1, 2, 14, 3, 6, 8, 8, 5, 11, 15, 12, 7, 1, 12, 10, 3, 10, 8, 10, 8, 1, 2, 8, 14, 11, 15, 10, 10, 15, 4, 2, 12, 12, 12, 12, 14, 15>>)
    @@
    (("(None, 7)0af7ba66f9a27ed0e229221aada0cc88d5d6fd58f46f72eb626bd37b8e94efc80af7ba66f9a27ed0e229221aada0cc88d5d6fd58f46f72eb626bd37b8e94efc80af7ba66f9a27ed0e229221aada0cc88d5d6fd58f46f72eb626bd37b8e94efc8"
        :> <<0, 10, 13, 6, 3, 14, 14, 10, 5, 9, 7, 1, 0, 15, 14, 5, 15, 3, 9, 14, 3, 9, 4, 3, 6, 3, 6, 12, 15, 14, 3, 11, 12, 4, 8, 2, 1, 1, 13, 11, 10, 13, 8, 13, 12, 8, 8, 0, 1, 7, 4, 8, 2, 4, 2, 2, 4, 8, 1, 3, 7, 9, 9, 9>>)
    @@
    ("(None, 7)0af7ba66f9a27ed0e229221aada0cc88d5d6fd58f46f72eb626bd37b8e94efc80af7ba66f9a27ed0e229221aada0cc88d5d6fd58f46f72eb626bd37b8e94efc80f953d12a939fe4ef354fff77564841627136a6bf3667b256c4a5cb6768788da"
        :> <<6, 8, 15, 11, 13, 10, 2, 1, 1, 5, 6, 6, 8, 5, 7, 12, 12, 13, 14, 5, 6, 9, 7, 5, 8, 14, 6, 4, 5, 2, 15, 2, 7, 11, 4, 6, 7, 8, 6, 13, 3, 10, 0, 8, 9, 12, 9, 8, 15, 13, 5, 2, 7, 7, 11, 9, 2, 12, 8, 12, 7, 6, 7, 11>>)))
    @@
    (("(None, 7)0af7ba66f9a27ed0e229221aada0cc88d5d6fd58f46f72eb626bd37b8e94efc80af7ba66f9a27ed0e229221aada0cc88d5d6fd58f46f72eb626bd37b8e94efc8140fc148a380d69b8753d296355d450a4c606dfa652482747ab694cd6ac23972"
        :> <<1, 0, 5, 9, 6, 2, 1, 13, 10, 7, 13, 6, 6, 8, 6, 5, 14, 15, 11, 5, 5, 12, 12, 6, 6, 11, 15, 12, 10, 6, 4, 14, 13, 1, 12, 6, 5, 9, 12, 7, 10, 5, 5, 8, 11, 8, 15, 12, 1, 4, 7, 14, 13, 0, 7, 12, 11, 13, 6, 6, 13, 7, 14, 11>>)
    @@
    (("(None, 7)0af7ba66f9a27ed0e229221aada0cc88d5d6fd58f46f72eb626bd37b8e94efc80af7ba66f9a27ed0e229221aada0cc88d5d6fd58f46f72eb626bd37b8e94efc87d3c95f98bd2b66af7c1d3a16cad13e01562539e02afc9695b86a5416092645f"
        :> <<9, 9, 11, 14, 7, 6, 3, 8, 8, 10, 10, 8, 14, 7, 9, 13, 15, 12, 11, 10, 11, 10, 0, 15, 1, 9, 4, 9, 6, 12, 6, 2, 15, 13, 12, 3, 5, 5, 5, 3, 1, 8, 7, 0, 4, 14, 1, 5, 1, 13, 14, 14, 7, 5, 6, 5, 4, 7, 12, 4, 7, 3, 8, 10>>)
    @@
    ("(None, 7)0af7ba66f9a27ed0e229221aada0cc88d5d6fd58f46f72eb626bd37b8e94efc80f953d12a939fe4ef354fff77564841627136a6bf3667b256c4a5cb6768788da"
        :> <<7, 13, 5, 15, 4, 14, 8, 5, 15, 10, 12, 11, 14, 9, 7, 1, 2, 7, 12, 0, 14, 14, 14, 15, 6, 10, 15, 10, 12, 5, 7, 5, 3, 15, 6, 14, 1, 12, 6, 8, 14, 13, 15, 5, 10, 10, 15, 4, 5, 6, 13, 4, 0, 2, 12, 9, 1, 12, 15, 12, 14, 4, 3, 0>>))))
    @@
    ((("(None, 7)0af7ba66f9a27ed0e229221aada0cc88d5d6fd58f46f72eb626bd37b8e94efc80f953d12a939fe4ef354fff77564841627136a6bf3667b256c4a5cb6768788da0af7ba66f9a27ed0e229221aada0cc88d5d6fd58f46f72eb626bd37b8e94efc8"
        :> <<6, 12, 7, 4, 9, 11, 10, 15, 12, 8, 2, 13, 6, 13, 10, 1, 12, 4, 9, 3, 11, 5, 11, 1, 15, 5, 3, 14, 5, 4, 10, 8, 5, 3, 14, 3, 14, 5, 5, 12, 6, 6, 14, 3, 3, 6, 5, 11, 6, 5, 4, 13, 15, 13, 15, 10, 4, 8, 9, 9, 5, 7, 8, 15>>)
    @@
    (("(None, 7)0af7ba66f9a27ed0e229221aada0cc88d5d6fd58f46f72eb626bd37b8e94efc80f953d12a939fe4ef354fff77564841627136a6bf3667b256c4a5cb6768788da0f953d12a939fe4ef354fff77564841627136a6bf3667b256c4a5cb6768788da"
        :> <<0, 3, 7, 15, 5, 15, 2, 11, 0, 14, 10, 0, 11, 4, 10, 11, 15, 3, 6, 2, 13, 0, 13, 3, 13, 2, 9, 15, 10, 14, 11, 3, 12, 15, 11, 9, 7, 2, 4, 9, 6, 14, 7, 8, 3, 12, 3, 3, 3, 13, 1, 11, 4, 13, 12, 3, 9, 2, 2, 13, 5, 9, 12, 11>>)
    @@
    ("(None, 7)0af7ba66f9a27ed0e229221aada0cc88d5d6fd58f46f72eb626bd37b8e94efc80f953d12a939fe4ef354fff77564841627136a6bf3667b256c4a5cb6768788da140fc148a380d69b8753d296355d450a4c606dfa652482747ab694cd6ac23972"
        :> <<1, 12, 14, 2, 5, 3, 15, 15, 4, 15, 6, 11, 15, 12, 12, 2, 11, 11, 12, 13, 15, 9, 11, 8, 7, 1, 1, 5, 3, 4, 7, 12, 6, 8, 5, 12, 4, 6, 7, 5, 0, 15, 10, 6, 12, 2, 10, 6, 1, 9, 1, 2, 4, 9, 10, 2, 7, 14, 6, 9, 11, 15, 5, 1>>)))
    @@
    ((("(None, 7)0af7ba66f9a27ed0e229221aada0cc88d5d6fd58f46f72eb626bd37b8e94efc80f953d12a939fe4ef354fff77564841627136a6bf3667b256c4a5cb6768788da7d3c95f98bd2b66af7c1d3a16cad13e01562539e02afc9695b86a5416092645f"
        :> <<12, 13, 4, 8, 0, 8, 3, 2, 14, 9, 3, 5, 9, 6, 6, 4, 10, 7, 7, 3, 13, 10, 13, 11, 10, 13, 7, 8, 1, 4, 12, 15, 13, 10, 6, 8, 3, 9, 3, 10, 8, 12, 13, 12, 14, 0, 11, 4, 12, 4, 1, 13, 13, 7, 6, 7, 15, 14, 1, 5, 12, 12, 13, 14>>)
    @@
    ("(None, 7)0af7ba66f9a27ed0e229221aada0cc88d5d6fd58f46f72eb626bd37b8e94efc8140fc148a380d69b8753d296355d450a4c606dfa652482747ab694cd6ac23972"
        :> <<2, 9, 13, 6, 10, 13, 14, 9, 1, 15, 14, 3, 10, 3, 12, 2, 12, 8, 2, 4, 11, 12, 10, 0, 14, 8, 7, 11, 6, 10, 15, 1, 1, 3, 15, 5, 12, 4, 3, 3, 2, 1, 8, 1, 3, 10, 11, 10, 14, 14, 13, 0, 10, 5, 8, 7, 6, 15, 11, 1, 15, 11, 0, 15>>))
    @@
    (("(None, 7)0af7ba66f9a27ed0e229221aada0cc88d5d6fd58f46f72eb626bd37b8e94efc8140fc148a380d69b8753d296355d450a4c606dfa652482747ab694cd6ac239720af7ba66f9a27ed0e229221aada0cc88d5d6fd58f46f72eb626bd37b8e94efc8"
        :> <<12, 0, 15, 2, 8, 7, 1, 8, 7, 8, 1, 6, 7, 5, 3, 4, 15, 0, 4, 0, 13, 9, 9, 11, 10, 7, 0, 12, 6, 13, 9, 13, 5, 11, 15, 0, 10, 15, 4, 7, 5, 1, 4, 1, 12, 6, 6, 5, 9, 12, 11, 0, 14, 11, 15, 1, 10, 3, 8, 0, 12, 0, 10, 10>>)
    @@
    ("(None, 7)0af7ba66f9a27ed0e229221aada0cc88d5d6fd58f46f72eb626bd37b8e94efc8140fc148a380d69b8753d296355d450a4c606dfa652482747ab694cd6ac239720f953d12a939fe4ef354fff77564841627136a6bf3667b256c4a5cb6768788da"
        :> <<9, 3, 11, 12, 15, 8, 1, 5, 8, 2, 3, 15, 10, 6, 11, 10, 14, 7, 5, 13, 2, 2, 12, 8, 3, 4, 9, 3, 3, 0, 2, 0, 0, 15, 7, 12, 4, 11, 7, 15, 0, 9, 7, 12, 0, 3, 12, 8, 10, 5, 8, 0, 1, 9, 5, 9, 9, 12, 3, 11, 7, 0, 9, 9>>)))))))
    @@
    (((((("(None, 7)0af7ba66f9a27ed0e229221aada0cc88d5d6fd58f46f72eb626bd37b8e94efc8140fc148a380d69b8753d296355d450a4c606dfa652482747ab694cd6ac23972140fc148a380d69b8753d296355d450a4c606dfa652482747ab694cd6ac23972"
        :> <<5, 1, 12, 15, 8, 8, 12, 5, 11, 0, 1, 5, 11, 5, 13, 14, 1, 5, 14, 9, 7, 1, 9, 11, 7, 7, 2, 1, 12, 0, 0, 0, 12, 12, 1, 4, 11, 3, 13, 15, 15, 1, 7, 2, 6, 11, 7, 5, 14, 13, 8, 3, 12, 12, 8, 15, 7, 2, 11, 1, 4, 11, 14, 14>>)
    @@
    (("(None, 7)0af7ba66f9a27ed0e229221aada0cc88d5d6fd58f46f72eb626bd37b8e94efc8140fc148a380d69b8753d296355d450a4c606dfa652482747ab694cd6ac239727d3c95f98bd2b66af7c1d3a16cad13e01562539e02afc9695b86a5416092645f"
        :> <<5, 3, 4, 13, 15, 11, 13, 9, 11, 12, 11, 5, 15, 5, 11, 9, 15, 6, 2, 14, 14, 1, 2, 14, 10, 2, 11, 2, 10, 13, 6, 13, 7, 0, 2, 5, 6, 11, 5, 1, 6, 13, 12, 5, 10, 2, 9, 15, 6, 12, 15, 14, 8, 13, 2, 4, 7, 14, 13, 3, 7, 9, 11, 11>>)
    @@
    ("(None, 7)0af7ba66f9a27ed0e229221aada0cc88d5d6fd58f46f72eb626bd37b8e94efc87d3c95f98bd2b66af7c1d3a16cad13e01562539e02afc9695b86a5416092645f"
        :> <<2, 13, 4, 12, 7, 12, 1, 0, 8, 0, 11, 1, 9, 13, 2, 15, 10, 14, 5, 3, 7, 3, 14, 13, 7, 11, 10, 13, 14, 1, 10, 7, 13, 1, 5, 9, 5, 6, 10, 13, 15, 5, 8, 11, 2, 14, 13, 2, 11, 9, 10, 11, 6, 15, 2, 2, 15, 11, 3, 8, 15, 3, 8, 6>>)))
    @@
    (("(None, 7)0af7ba66f9a27ed0e229221aada0cc88d5d6fd58f46f72eb626bd37b8e94efc87d3c95f98bd2b66af7c1d3a16cad13e01562539e02afc9695b86a5416092645f0af7ba66f9a27ed0e229221aada0cc88d5d6fd58f46f72eb626bd37b8e94efc8"
        :> <<13, 15, 6, 8, 0, 6, 0, 5, 1, 2, 8, 7, 2, 7, 12, 8, 2, 4, 4, 15, 0, 0, 5, 0, 11, 9, 12, 3, 2, 0, 4, 2, 2, 2, 2, 14, 13, 14, 13, 7, 9, 5, 4, 6, 5, 13, 5, 1, 4, 13, 6, 9, 11, 6, 6, 7, 4, 13, 10, 13, 2, 7, 3, 9>>)
    @@
    (("(None, 7)0af7ba66f9a27ed0e229221aada0cc88d5d6fd58f46f72eb626bd37b8e94efc87d3c95f98bd2b66af7c1d3a16cad13e01562539e02afc9695b86a5416092645f0f953d12a939fe4ef354fff77564841627136a6bf3667b256c4a5cb6768788da"
        :> <<9, 8, 1, 0, 13, 15, 9, 8, 0, 8, 14, 6, 6, 11, 4, 0, 9, 13, 9, 5, 12, 6, 11, 14, 10, 2, 6, 15, 9, 9, 5, 4, 9, 1, 13, 4, 4, 11, 14, 11, 1, 7, 9, 14, 7, 4, 12, 2, 5, 1, 14, 6, 4, 10, 3, 1, 12, 0, 9, 10, 3, 3, 7, 0>>)
    @@
    ("(None, 7)0af7ba66f9a27ed0e229221aada0cc88d5d6fd58f46f72eb626bd37b8e94efc87d3c95f98bd2b66af7c1d3a16cad13e01562539e02afc9695b86a5416092645f140fc148a380d69b8753d296355d450a4c606dfa652482747ab694cd6ac23972"
        :> <<1, 5, 15, 8, 4, 8, 6, 8, 7, 4, 9, 4, 6, 3, 5, 2, 8, 11, 5, 2, 14, 1, 7, 8, 12, 6, 15, 13, 12, 7, 8, 4, 2, 4, 6, 5, 10, 12, 2, 13, 0, 3, 3, 6, 13, 11, 1, 5, 13, 8, 12, 14, 9, 7, 1, 12, 11, 1, 9, 12, 2, 13, 12, 14>>))))
    @@
    ((("(None, 7)0af7ba66f9a27ed0e229221aada0cc88d5d6fd58f46f72eb626bd37b8e94efc87d3c95f98bd2b66af7c1d3a16cad13e01562539e02afc9695b86a5416092645f7d3c95f98bd2b66af7c1d3a16cad13e01562539e02afc9695b86a5416092645f"
        :> <<7, 0, 14, 12, 5, 13, 0, 7, 12, 7, 3, 6, 12, 5, 1, 6, 2, 6, 14, 13, 4, 8, 8, 12, 8, 10, 13, 7, 2, 5, 6, 0, 15, 12, 4, 12, 12, 14, 9, 11, 5, 7, 11, 14, 4, 1, 6, 11, 12, 7, 3, 15, 12, 9, 15, 9, 7, 10, 10, 6, 10, 3, 2, 14>>)
    @@
    (("(None, 7)0f953d12a939fe4ef354fff77564841627136a6bf3667b256c4a5cb6768788da"
        :> <<0, 12, 3, 15, 13, 8, 1, 10, 7, 7, 14, 2, 1, 10, 5, 14, 2, 0, 12, 11, 7, 14, 14, 15, 12, 11, 5, 1, 2, 12, 9, 15, 8, 3, 2, 1, 10, 0, 4, 5, 6, 3, 3, 4, 10, 6, 6, 15, 10, 5, 3, 10, 6, 10, 6, 4, 9, 5, 12, 12, 6, 10, 11, 3>>)
    @@
    ("(None, 7)0f953d12a939fe4ef354fff77564841627136a6bf3667b256c4a5cb6768788da0af7ba66f9a27ed0e229221aada0cc88d5d6fd58f46f72eb626bd37b8e94efc8"
        :> <<9, 12, 2, 4, 11, 15, 6, 11, 13, 8, 11, 15, 12, 6, 11, 2, 0, 12, 3, 14, 10, 5, 5, 8, 5, 11, 12, 0, 5, 6, 0, 7, 13, 9, 11, 14, 11, 10, 4, 4, 10, 2, 0, 0, 9, 1, 1, 5, 6, 9, 7, 5, 14, 14, 13, 12, 8, 10, 1, 0, 9, 14, 1, 0>>)))
    @@
    ((("(None, 7)0f953d12a939fe4ef354fff77564841627136a6bf3667b256c4a5cb6768788da0af7ba66f9a27ed0e229221aada0cc88d5d6fd58f46f72eb626bd37b8e94efc80af7ba66f9a27ed0e229221aada0cc88d5d6fd58f46f72eb626bd37b8e94efc8"
        :> <<5, 5, 10, 1, 9, 10, 0, 1, 3, 5, 11, 14, 9, 7, 12, 9, 8, 8, 14, 15, 0, 7, 2, 5, 14, 5, 9, 11, 8, 3, 6, 11, 8, 1, 14, 0, 11, 9, 0, 8, 2, 7, 3, 13, 9, 3, 3, 13, 10, 15, 6, 6, 6, 7, 2, 0, 7, 10, 7, 15, 8, 8, 1, 7>>)
    @@
    ("(None, 7)0f953d12a939fe4ef354fff77564841627136a6bf3667b256c4a5cb6768788da0af7ba66f9a27ed0e229221aada0cc88d5d6fd58f46f72eb626bd37b8e94efc80f953d12a939fe4ef354fff77564841627136a6bf3667b256c4a5cb6768788da"
        :> <<3, 9, 6, 7, 9, 3, 0, 13, 1, 7, 5, 10, 7, 5, 8, 8, 6, 10, 14, 10, 6, 5, 9, 11, 5, 3, 2, 5, 8, 10, 12, 13, 5, 14, 6, 12, 0, 9, 4, 7, 7, 1, 9, 10, 14, 1, 2, 9, 11, 8, 5, 3, 3, 7, 2, 13, 13, 6, 15, 13, 6, 2, 14, 12>>))
    @@
    (("(None, 7)0f953d12a939fe4ef354fff77564841627136a6bf3667b256c4a5cb6768788da0af7ba66f9a27ed0e229221aada0cc88d5d6fd58f46f72eb626bd37b8e94efc8140fc148a380d69b8753d296355d450a4c606dfa652482747ab694cd6ac23972"
        :> <<9, 14, 6, 8, 8, 12, 5, 13, 0, 3, 6, 3, 8, 2, 0, 0, 2, 12, 11, 14, 1, 12, 11, 5, 11, 2, 7, 0, 15, 5, 3, 4, 1, 15, 12, 10, 6, 4, 3, 12, 4, 9, 2, 9, 7, 12, 11, 3, 12, 2, 9, 12, 13, 7, 14, 7, 2, 6, 8, 9, 6, 4, 6, 6>>)
    @@
    ("(None, 7)0f953d12a939fe4ef354fff77564841627136a6bf3667b256c4a5cb6768788da0af7ba66f9a27ed0e229221aada0cc88d5d6fd58f46f72eb626bd37b8e94efc87d3c95f98bd2b66af7c1d3a16cad13e01562539e02afc9695b86a5416092645f"
        :> <<15, 7, 9, 6, 5, 4, 1, 6, 8, 4, 2, 11, 3, 1, 10, 2, 5, 3, 7, 9, 6, 7, 15, 14, 9, 15, 12, 15, 12, 10, 11, 8, 2, 7, 14, 6, 12, 1, 9, 2, 3, 11, 11, 3, 9, 4, 0, 11, 8, 11, 5, 14, 15, 6, 15, 3, 12, 11, 15, 15, 7, 10, 8, 1>>)))))
    @@
    (((("(None, 7)0f953d12a939fe4ef354fff77564841627136a6bf3667b256c4a5cb6768788da0f953d12a939fe4ef354fff77564841627136a6bf3667b256c4a5cb6768788da"
        :> <<0, 8, 15, 13, 7, 9, 7, 15, 5, 10, 3, 2, 0, 2, 3, 14, 10, 14, 0, 7, 11, 9, 2, 11, 6, 2, 3, 12, 14, 15, 5, 7, 3, 2, 8, 11, 7, 7, 12, 12, 2, 0, 11, 9, 3, 13, 2, 1, 12, 0, 10, 14, 6, 8, 12, 8, 13, 8, 3, 11, 15, 10, 5, 15>>)
    @@
    (("(None, 7)0f953d12a939fe4ef354fff77564841627136a6bf3667b256c4a5cb6768788da0f953d12a939fe4ef354fff77564841627136a6bf3667b256c4a5cb6768788da0af7ba66f9a27ed0e229221aada0cc88d5d6fd58f46f72eb626bd37b8e94efc8"
        :> <<6, 9, 12, 2, 1, 14, 8, 5, 10, 6, 7, 15, 15, 9, 13, 8, 13, 2, 0, 11, 6, 3, 11, 15, 10, 3, 7, 3, 13, 9, 1, 14, 1, 10, 12, 5, 8, 6, 15, 6, 7, 4, 15, 14, 4, 15, 3, 8, 12, 7, 6, 4, 12, 14, 7, 5, 8, 14, 1, 5, 0, 10, 0, 10>>)
    @@
    ("(None, 7)0f953d12a939fe4ef354fff77564841627136a6bf3667b256c4a5cb6768788da0f953d12a939fe4ef354fff77564841627136a6bf3667b256c4a5cb6768788da0f953d12a939fe4ef354fff77564841627136a6bf3667b256c4a5cb6768788da"
        :> <<11, 10, 3, 8, 6, 3, 13, 9, 9, 12, 1, 9, 3, 0, 8, 4, 7, 0, 5, 13, 14, 2, 7, 7, 10, 8, 8, 1, 11, 10, 8, 5, 8, 5, 14, 15, 3, 7, 2, 6, 12, 4, 15, 3, 7, 13, 14, 12, 1, 1, 6, 10, 4, 2, 8, 14, 2, 11, 9, 1, 7, 6, 14, 14>>)))
    @@
    (("(None, 7)0f953d12a939fe4ef354fff77564841627136a6bf3667b256c4a5cb6768788da0f953d12a939fe4ef354fff77564841627136a6bf3667b256c4a5cb6768788da140fc148a380d69b8753d296355d450a4c606dfa652482747ab694cd6ac23972"
        :> <<3, 13, 4, 5, 13, 10, 6, 13, 11, 13, 15, 7, 14, 11, 0, 9, 12, 4, 8, 8, 11, 6, 12, 0, 6, 12, 5, 4, 5, 3, 0, 2, 3, 3, 8, 2, 4, 15, 4, 4, 6, 1, 2, 10, 8, 1, 2, 4, 4, 8, 7, 0, 6, 0, 8, 13, 12, 3, 3, 15, 3, 12, 6, 2>>)
    @@
    (("(None, 7)0f953d12a939fe4ef354fff77564841627136a6bf3667b256c4a5cb6768788da0f953d12a939fe4ef354fff77564841627136a6bf3667b256c4a5cb6768788da7d3c95f98bd2b66af7c1d3a16cad13e01562539e02afc9695b86a5416092645f"
        :> <<2, 12, 4, 4, 12, 15, 8, 5, 13, 4, 10, 3, 2, 15, 9, 9, 2, 8, 4, 9, 3, 8, 7, 10, 9, 10, 6, 4, 1, 15, 13, 8, 7, 13, 1, 4, 10, 8, 6, 13, 3, 1, 10, 1, 10, 2, 15, 2, 1, 3, 7, 6, 14, 15, 0, 13, 7, 12, 0, 1, 10, 12, 14, 4>>)
    @@
    ("(None, 7)0f953d12a939fe4ef354fff77564841627136a6bf3667b256c4a5cb6768788da140fc148a380d69b8753d296355d450a4c606dfa652482747ab694cd6ac23972"
        :> <<7, 1, 8, 14, 5, 10, 15, 10, 7, 11, 15, 14, 11, 8, 2, 4, 8, 9, 13, 0, 9, 0, 10, 15, 13, 3, 14, 2, 14, 4, 0, 5, 2, 3, 1, 9, 13, 0, 5, 8, 3, 9, 8, 8, 12, 0, 2, 5, 7, 3, 7, 2, 14, 2, 13, 8, 4, 1, 15, 15, 14, 8, 13, 13>>))))
    @@
    ((("(None, 7)0f953d12a939fe4ef354fff77564841627136a6bf3667b256c4a5cb6768788da140fc148a380d69b8753d296355d450a4c606dfa652482747ab694cd6ac239720af7ba66f9a27ed0e229221aada0cc88d5d6fd58f46f72eb626bd37b8e94efc8"
        :> <<4, 5, 6, 7, 5, 1, 1, 1, 13, 8, 2, 5, 4, 12, 14, 1, 0, 12, 7, 13, 13, 2, 12, 4, 15, 4, 12, 12, 0, 0, 14, 0, 6, 10, 9, 3, 7, 4, 5, 2, 1, 8, 9, 15, 7, 7, 7, 8, 8, 11, 9, 8, 12, 11, 15, 6, 7, 6, 8, 15, 5, 9, 0, 1>>)
    @@
    (("(None, 7)0f953d12a939fe4ef354fff77564841627136a6bf3667b256c4a5cb6768788da140fc148a380d69b8753d296355d450a4c606dfa652482747ab694cd6ac239720f953d12a939fe4ef354fff77564841627136a6bf3667b256c4a5cb6768788da"
        :> <<1, 11, 1, 15, 1, 13, 4, 4, 5, 0, 2, 0, 2, 0, 10, 3, 11, 15, 3, 1, 5, 11, 12, 2, 2, 7, 13, 9, 15, 14, 15, 0, 9, 5, 7, 5, 5, 9, 9, 9, 10, 7, 14, 1, 11, 6, 6, 8, 14, 6, 13, 4, 5, 8, 14, 11, 9, 9, 11, 15, 7, 8, 3, 5>>)
    @@
    ("(None, 7)0f953d12a939fe4ef354fff77564841627136a6bf3667b256c4a5cb6768788da140fc148a380d69b8753d296355d450a4c606dfa652482747ab694cd6ac23972140fc148a380d69b8753d296355d450a4c606dfa652482747ab694cd6ac23972"
        :> <<9, 15, 13, 5, 15, 3, 7, 2, 15, 12, 0, 5, 7, 11, 3, 14, 5, 6, 14, 15, 1, 9, 14, 15, 3, 9, 0, 0, 15, 12, 5, 14, 9, 3, 5, 10, 5, 13, 1, 0, 9, 7, 11, 3, 3, 9, 5, 11, 4, 15, 1, 10, 9, 6, 5, 3, 12, 4, 4, 15, 0, 0, 15, 4>>)))
    @@
    ((("(None, 7)0f953d12a939fe4ef354fff77564841627136a6bf3667b256c4a5cb6768788da140fc148a380d69b8753d296355d450a4c606dfa652482747ab694cd6ac239727d3c95f98bd2b66af7c1d3a16cad13e01562539e02afc9695b86a5416092645f"
        :> <<15, 11, 7, 4, 2, 10, 3, 5, 13, 6, 5, 2, 10, 5, 8, 1, 8, 4, 9, 6, 8, 4, 5, 10, 5, 14, 13, 4, 5, 2, 8, 2, 13, 1, 0, 6, 10, 3, 15, 14, 5, 12, 0, 9, 5, 9, 7, 7, 0, 4, 2, 5, 11, 12, 1, 12, 9, 11, 2, 12, 0, 12, 3, 3>>)
    @@
    ("(None, 7)0f953d12a939fe4ef354fff77564841627136a6bf3667b256c4a5cb6768788da7d3c95f98bd2b66af7c1d3a16cad13e01562539e02afc9695b86a5416092645f"
        :> <<12, 2, 6, 8, 5, 2, 10, 11, 1, 8, 1, 4, 2, 13, 1, 7, 13, 5, 12, 15, 2, 2, 13, 2, 14, 15, 7, 8, 1, 12, 13, 3, 7, 2, 15, 1, 14, 7, 15, 8, 11, 14, 10, 12, 7, 10, 4, 9, 6, 14, 3, 13, 12, 6, 10, 2, 15, 0, 8, 7, 1, 8, 8, 5>>))
    @@
    (("(None, 7)0f953d12a939fe4ef354fff77564841627136a6bf3667b256c4a5cb6768788da7d3c95f98bd2b66af7c1d3a16cad13e01562539e02afc9695b86a5416092645f0af7ba66f9a27ed0e229221aada0cc88d5d6fd58f46f72eb626bd37b8e94efc8"
        :> <<3, 6, 13, 2, 0, 0, 10, 10, 2, 3, 4, 13, 13, 0, 6, 0, 11, 7, 2, 1, 14, 9, 12, 11, 0, 9, 4, 2, 4, 13, 6, 12, 9, 14, 2, 0, 8, 13, 7, 15, 12, 13, 8, 3, 7, 14, 14, 11, 14, 2, 10, 9, 2, 12, 15, 11, 9, 12, 6, 3, 10, 2, 2, 8>>)
    @@
    ("(None, 7)0f953d12a939fe4ef354fff77564841627136a6bf3667b256c4a5cb6768788da7d3c95f98bd2b66af7c1d3a16cad13e01562539e02afc9695b86a5416092645f0f953d12a939fe4ef354fff77564841627136a6bf3667b256c4a5cb6768788da"
        :> <<0, 1, 1, 11, 1, 9, 1, 2, 10, 3, 0, 7, 6, 14, 10, 13, 8, 2, 14, 7, 14, 0, 5, 2, 1, 2, 14, 2, 10, 9, 10, 0, 1, 14, 8, 4, 5, 15, 7, 9, 8, 4, 11, 0, 5, 14, 8, 10, 7, 8, 10, 9, 6, 0, 0, 14, 11, 15, 0, 7, 9, 15, 9, 8>>))))))
    @@
    ((((("(None, 7)0f953d12a939fe4ef354fff77564841627136a6bf3667b256c4a5cb6768788da7d3c95f98bd2b66af7c1d3a16cad13e01562539e02afc9695b86a5416092645f140fc148a380d69b8753d296355d450a4c606dfa652482747ab694cd6ac23972"
        :> <<13, 1, 7, 14, 8, 15, 1, 9, 5, 13, 2, 4, 13, 10, 15, 6, 1, 15, 12, 6, 0, 3, 7, 11, 6, 0, 13, 5, 3, 1, 13, 12, 12, 1, 14, 6, 2, 13, 8, 7, 2, 14, 9, 8, 9, 9, 1, 6, 13, 4, 3, 2, 9, 12, 1, 14, 0, 0, 0, 3, 15, 2, 2, 8>>)
    @@
    (("(None, 7)0f953d12a939fe4ef354fff77564841627136a6bf3667b256c4a5cb6768788da7d3c95f98bd2b66af7c1d3a16cad13e01562539e02afc9695b86a5416092645f7d3c95f98bd2b66af7c1d3a16cad13e01562539e02afc9695b86a5416092645f"
        :> <<14, 0, 8, 11, 0, 12, 5, 12, 5, 4, 14, 6, 8, 7, 6, 10, 3, 1, 8, 7, 1, 2, 6, 4, 8, 0, 10, 3, 1, 6, 15, 10, 13, 4, 7, 0, 4, 3, 0, 7, 10, 9, 5, 7, 10, 10, 13, 0, 0, 14, 6, 3, 6, 9, 15, 9, 10, 9, 4, 14, 15, 9, 13, 7>>)
    @@
    ("(None, 7)140fc148a380d69b8753d296355d450a4c606dfa652482747ab694cd6ac23972"
        :> <<5, 10, 4, 2, 3, 6, 1, 12, 13, 6, 10, 3, 15, 3, 13, 0, 3, 9, 9, 9, 2, 7, 14, 5, 5, 4, 4, 11, 5, 8, 11, 6, 12, 11, 11, 13, 13, 3, 2, 7, 10, 9, 3, 6, 1, 3, 12, 15, 2, 6, 14, 13, 10, 15, 14, 8, 0, 10, 0, 15, 5, 4, 5, 11>>)))
    @@
    (("(None, 7)140fc148a380d69b8753d296355d450a4c606dfa652482747ab694cd6ac239720af7ba66f9a27ed0e229221aada0cc88d5d6fd58f46f72eb626bd37b8e94efc8"
        :> <<5, 0, 5, 4, 5, 15, 12, 8, 9, 3, 8, 13, 10, 14, 12, 15, 6, 1, 9, 7, 12, 5, 5, 0, 10, 14, 10, 5, 3, 6, 4, 0, 6, 2, 12, 3, 15, 0, 2, 9, 9, 3, 7, 15, 0, 5, 13, 11, 11, 1, 5, 0, 2, 14, 10, 3, 15, 12, 10, 13, 6, 15, 14, 2>>)
    @@
    (("(None, 7)140fc148a380d69b8753d296355d450a4c606dfa652482747ab694cd6ac239720af7ba66f9a27ed0e229221aada0cc88d5d6fd58f46f72eb626bd37b8e94efc80af7ba66f9a27ed0e229221aada0cc88d5d6fd58f46f72eb626bd37b8e94efc8"
        :> <<12, 11, 4, 7, 12, 3, 0, 6, 14, 13, 2, 15, 13, 4, 10, 13, 7, 15, 13, 11, 6, 9, 4, 13, 11, 12, 8, 1, 14, 0, 13, 3, 7, 4, 2, 0, 10, 10, 9, 15, 15, 12, 4, 0, 1, 8, 0, 13, 4, 4, 12, 10, 7, 8, 12, 14, 15, 2, 12, 11, 8, 9, 7, 12>>)
    @@
    ("(None, 7)140fc148a380d69b8753d296355d450a4c606dfa652482747ab694cd6ac239720af7ba66f9a27ed0e229221aada0cc88d5d6fd58f46f72eb626bd37b8e94efc80f953d12a939fe4ef354fff77564841627136a6bf3667b256c4a5cb6768788da"
        :> <<10, 2, 5, 0, 15, 10, 13, 6, 4, 5, 7, 2, 14, 15, 15, 2, 4, 15, 15, 0, 1, 7, 1, 9, 12, 14, 13, 3, 8, 1, 13, 5, 9, 11, 5, 10, 12, 9, 7, 9, 11, 0, 11, 6, 3, 11, 9, 2, 7, 0, 15, 3, 10, 5, 12, 1, 12, 5, 12, 15, 13, 0, 7, 15>>))))
    @@
    ((("(None, 7)140fc148a380d69b8753d296355d450a4c606dfa652482747ab694cd6ac239720af7ba66f9a27ed0e229221aada0cc88d5d6fd58f46f72eb626bd37b8e94efc8140fc148a380d69b8753d296355d450a4c606dfa652482747ab694cd6ac23972"
        :> <<8, 4, 2, 5, 9, 13, 9, 13, 8, 7, 1, 8, 1, 8, 15, 15, 1, 14, 1, 11, 7, 0, 7, 11, 6, 12, 4, 7, 4, 7, 6, 3, 2, 0, 4, 6, 8, 0, 13, 14, 3, 2, 12, 4, 6, 3, 15, 5, 5, 2, 3, 9, 5, 12, 8, 12, 8, 10, 2, 15, 1, 10, 15, 0>>)
    @@
    (("(None, 7)140fc148a380d69b8753d296355d450a4c606dfa652482747ab694cd6ac239720af7ba66f9a27ed0e229221aada0cc88d5d6fd58f46f72eb626bd37b8e94efc87d3c95f98bd2b66af7c1d3a16cad13e01562539e02afc9695b86a5416092645f"
        :> <<14, 12, 2, 7, 12, 1, 5, 12, 12, 11, 4, 15, 15, 8, 15, 10, 12, 14, 11, 3, 10, 7, 5, 9, 13, 8, 3, 4, 14, 14, 8, 8, 14, 13, 2, 0, 8, 7, 4, 3, 1, 0, 15, 4, 13, 7, 6, 3, 1, 9, 10, 12, 4, 4, 7, 6, 9, 14, 1, 5, 13, 9, 5, 8>>)
    @@
    ("(None, 7)140fc148a380d69b8753d296355d450a4c606dfa652482747ab694cd6ac239720f953d12a939fe4ef354fff77564841627136a6bf3667b256c4a5cb6768788da"
        :> <<9, 12, 11, 15, 11, 11, 9, 8, 8, 8, 1, 7, 8, 2, 2, 6, 9, 6, 3, 7, 5, 3, 6, 5, 8, 4, 14, 0, 14, 3, 0, 12, 2, 12, 13, 5, 12, 4, 5, 3, 13, 7, 1, 12, 15, 11, 12, 9, 4, 4, 13, 11, 7, 0, 9, 7, 9, 1, 14, 6, 12, 12, 1, 8>>)))
    @@
    ((("(None, 7)140fc148a380d69b8753d296355d450a4c606dfa652482747ab694cd6ac239720f953d12a939fe4ef354fff77564841627136a6bf3667b256c4a5cb6768788da0af7ba66f9a27ed0e229221aada0cc88d5d6fd58f46f72eb626bd37b8e94efc8"
        :> <<2, 8, 2, 7, 12, 9, 8, 11, 14, 2, 0, 5, 0, 3, 11, 1, 15, 14, 14, 9, 9, 9, 0, 11, 14, 4, 13, 10, 8, 0, 15, 12, 12, 8, 8, 2, 11, 11, 11, 15, 2, 2, 3, 14, 11, 5, 10, 8, 0, 7, 6, 5, 13, 12, 1, 7, 6, 15, 15, 4, 11, 15, 15, 7>>)
    @@
    ("(None, 7)140fc148a380d69b8753d296355d450a4c606dfa652482747ab694cd6ac239720f953d12a939fe4ef354fff77564841627136a6bf3667b256c4a5cb6768788da0f953d12a939fe4ef354fff77564841627136a6bf3667b256c4a5cb6768788da"
        :> <<5, 14, 5, 1, 6, 15, 5, 15, 11, 13, 15, 0, 2, 3, 14, 13, 0, 12, 12, 5, 10, 6, 3, 9, 14, 15, 11, 5, 1, 10, 13, 11, 5, 1, 1, 0, 1, 3, 3, 4, 10, 3, 3, 3, 12, 9, 2, 1, 8, 9, 13, 8, 9, 6, 10, 7, 11, 6, 0, 12, 1, 15, 4, 14>>))
    @@
    (("(None, 7)140fc148a380d69b8753d296355d450a4c606dfa652482747ab694cd6ac239720f953d12a939fe4ef354fff77564841627136a6bf3667b256c4a5cb6768788da140fc148a380d69b8753d296355d450a4c606dfa652482747ab694cd6ac23972"
        :> <<3, 12, 1, 1, 11, 3, 8, 15, 14, 5, 15, 13, 8, 3, 11, 4, 13, 2, 13, 9, 2, 6, 7, 1, 7, 10, 0, 9, 4, 5, 1, 4, 2, 14, 6, 7, 4, 9, 5, 9, 4, 9, 0, 14, 6, 12, 13, 7, 14, 0, 12, 1, 5, 11, 14, 11, 14, 3, 8, 6, 6, 1, 14, 5>>)
    @@
    ("(None, 7)140fc148a380d69b8753d296355d450a4c606dfa652482747ab694cd6ac239720f953d12a939fe4ef354fff77564841627136a6bf3667b256c4a5cb6768788da7d3c95f98bd2b66af7c1d3a16cad13e01562539e02afc9695b86a5416092645f"
        :> <<11, 6, 0, 8, 11, 5, 5, 0, 12, 3, 6, 5, 2, 7, 2, 9, 1, 7, 6, 14, 4, 10, 12, 4, 14, 3, 12, 10, 13, 14, 14, 11, 7, 13, 13, 10, 7, 5, 11, 2, 11, 15, 6, 9, 12, 12, 12, 6, 0, 10, 10, 7, 3, 3, 10, 1, 9, 14, 8, 8, 10, 8, 0, 14>>)))))
    @@
    (((("(None, 7)140fc148a380d69b8753d296355d450a4c606dfa652482747ab694cd6ac23972140fc148a380d69b8753d296355d450a4c606dfa652482747ab694cd6ac23972"
        :> <<0, 6, 9, 5, 3, 4, 10, 8, 4, 15, 14, 4, 2, 14, 11, 2, 14, 4, 3, 1, 7, 15, 5, 4, 15, 10, 1, 8, 8, 6, 11, 9, 0, 14, 1, 1, 1, 6, 6, 13, 14, 7, 5, 6, 4, 4, 5, 15, 2, 8, 2, 14, 8, 5, 8, 13, 5, 11, 15, 9, 8, 8, 6, 12>>)
    @@
    (("(None, 7)140fc148a380d69b8753d296355d450a4c606dfa652482747ab694cd6ac23972140fc148a380d69b8753d296355d450a4c606dfa652482747ab694cd6ac239720af7ba66f9a27ed0e229221aada0cc88d5d6fd58f46f72eb626bd37b8e94efc8"
        :> <<3, 7, 10, 14, 4, 6, 6, 10, 5, 0, 6, 14, 8, 8, 12, 3, 9, 4, 3, 15, 2, 12, 9, 9, 0, 11, 9, 6, 9, 14, 11, 5, 9, 12, 2, 8, 7, 10, 5, 2, 10, 14, 11, 6, 1, 12, 7, 5, 13, 8, 0, 14, 15, 4, 4, 0, 14, 0, 3, 13, 15, 5, 4, 12>>)
    @@
    ("(None, 7)140fc148a380d69b8753d296355d450a4c606dfa652482747ab694cd6ac23972140fc148a380d69b8753d296355d450a4c606dfa652482747ab694cd6ac239720f953d12a939fe4ef354fff77564841627136a6bf3667b256c4a5cb6768788da"
        :> <<4, 0, 1, 7, 10, 9, 12, 5, 1, 9, 11, 1, 4, 10, 6, 5, 1, 2, 0, 14, 0, 4, 12, 7, 6, 6, 10, 1, 10, 4, 0, 6, 2, 0, 4, 4, 2, 7, 14, 2, 8, 8, 13, 13, 11, 13, 10, 9, 1, 4, 14, 3, 3, 14, 2, 10, 1, 5, 2, 6, 8, 0, 9, 12>>)))
    @@
    ((("(None, 7)140fc148a380d69b8753d296355d450a4c606dfa652482747ab694cd6ac23972140fc148a380d69b8753d296355d450a4c606dfa652482747ab694cd6ac23972140fc148a380d69b8753d296355d450a4c606dfa652482747ab694cd6ac23972"
        :> <<7, 10, 8, 14, 4, 14, 3, 4, 1, 4, 7, 14, 13, 15, 11, 4, 9, 3, 4, 4, 5, 14, 15, 5, 14, 0, 0, 13, 12, 2, 0, 14, 8, 2, 9, 11, 11, 9, 0, 11, 10, 3, 0, 2, 7, 12, 6, 8, 9, 3, 0, 8, 4, 10, 15, 11, 15, 2, 14, 13, 12, 8, 4, 9>>)
    @@
    ("(None, 7)140fc148a380d69b8753d296355d450a4c606dfa652482747ab694cd6ac23972140fc148a380d69b8753d296355d450a4c606dfa652482747ab694cd6ac239727d3c95f98bd2b66af7c1d3a16cad13e01562539e02afc9695b86a5416092645f"
        :> <<1, 4, 6, 7, 4, 1, 8, 14, 14, 4, 7, 8, 8, 9, 12, 11, 1, 4, 0, 0, 5, 5, 13, 4, 15, 11, 7, 6, 9, 14, 2, 13, 4, 10, 3, 10, 14, 8, 5, 0, 0, 1, 11, 5, 7, 12, 5, 13, 3, 9, 12, 11, 10, 7, 3, 8, 6, 10, 12, 15, 5, 15, 12, 12>>))
    @@
    (("(None, 7)140fc148a380d69b8753d296355d450a4c606dfa652482747ab694cd6ac239727d3c95f98bd2b66af7c1d3a16cad13e01562539e02afc9695b86a5416092645f"
        :> <<10, 4, 9, 8, 10, 8, 7, 10, 5, 2, 3, 8, 12, 9, 9, 14, 13, 10, 9, 6, 8, 10, 4, 5, 4, 0, 1, 15, 6, 6, 10, 1, 13, 6, 7, 15, 15, 4, 10, 2, 12, 2, 14, 10, 0, 2, 3, 7, 7, 2, 0, 14, 12, 9, 6, 1, 6, 3, 12, 4, 9, 13, 11, 0>>)
    @@
    ("(None, 7)140fc148a380d69b8753d296355d450a4c606dfa652482747ab694cd6ac239727d3c95f98bd2b66af7c1d3a16cad13e01562539e02afc9695b86a5416092645f0af7ba66f9a27ed0e229221aada0cc88d5d6fd58f46f72eb626bd37b8e94efc8"
        :> <<10, 14, 13, 2, 0, 2, 15, 1, 7, 8, 2, 11, 3, 4, 11, 10, 10, 11, 4, 9, 7, 1, 11, 12, 2, 0, 9, 15, 1, 13, 9, 7, 8, 0, 2, 7, 14, 8, 14, 9, 13, 15, 11, 6, 13, 4, 2, 4, 8, 4, 4, 5, 14, 5, 9, 1, 4, 10, 3, 12, 14, 15, 6, 0>>))))
    @@
    ((("(None, 7)140fc148a380d69b8753d296355d450a4c606dfa652482747ab694cd6ac239727d3c95f98bd2b66af7c1d3a16cad13e01562539e02afc9695b86a5416092645f0f953d12a939fe4ef354fff77564841627136a6bf3667b256c4a5cb6768788da"
        :> <<2, 9, 13, 14, 9, 1, 13, 13, 7, 6, 14, 10, 9, 9, 0, 6, 8, 0, 4, 3, 7, 13, 9, 15, 12, 10, 0, 7, 10, 1, 1, 0, 10, 15, 12, 4, 15, 2, 6, 1, 0, 1, 7, 4, 9, 10, 9, 14, 4, 14, 2, 1, 7, 13, 10, 15, 14, 13, 15, 14, 15, 9, 8, 7>>)
    @@
    (("(None, 7)140fc148a380d69b8753d296355d450a4c606dfa652482747ab694cd6ac239727d3c95f98bd2b66af7c1d3a16cad13e01562539e02afc9695b86a5416092645f140fc148a380d69b8753d296355d450a4c606dfa652482747ab694cd6ac23972"
        :> <<4, 0, 9, 5, 8, 3, 14, 13, 8, 5, 9, 12, 0, 15, 0, 3, 0, 1, 5, 12, 14, 5, 0, 7, 3, 3, 13, 3, 9, 1, 1, 15, 11, 15, 11, 13, 15, 8, 10, 15, 5, 8, 5, 10, 7, 4, 0, 13, 10, 1, 4, 2, 8, 0, 2, 2, 13, 1, 0, 3, 14, 7, 0, 7>>)
    @@
    ("(None, 7)140fc148a380d69b8753d296355d450a4c606dfa652482747ab694cd6ac239727d3c95f98bd2b66af7c1d3a16cad13e01562539e02afc9695b86a5416092645f7d3c95f98bd2b66af7c1d3a16cad13e01562539e02afc9695b86a5416092645f"
        :> <<0, 14, 5, 4, 5, 4, 8, 1, 3, 10, 7, 7, 9, 0, 1, 11, 6, 11, 15, 4, 12, 9, 10, 5, 5, 10, 6, 1, 10, 12, 13, 4, 3, 12, 10, 9, 15, 3, 3, 5, 14, 1, 4, 14, 14, 2, 5, 6, 9, 10, 4, 5, 0, 8, 1, 9, 6, 11, 9, 2, 1, 14, 5, 8>>)))
    @@
    ((("(None, 7)7d3c95f98bd2b66af7c1d3a16cad13e01562539e02afc9695b86a5416092645f"
        :> <<13, 12, 4, 7, 1, 4, 8, 0, 4, 1, 10, 15, 4, 10, 4, 13, 13, 9, 14, 15, 12, 9, 15, 4, 7, 3, 13, 5, 0, 7, 5, 0, 15, 14, 8, 8, 10, 0, 12, 7, 11, 15, 15, 10, 14, 13, 1, 5, 12, 7, 5, 5, 11, 14, 7, 5, 9, 4, 6, 13, 9, 6, 8, 2>>)
    @@
    ("(None, 7)7d3c95f98bd2b66af7c1d3a16cad13e01562539e02afc9695b86a5416092645f0af7ba66f9a27ed0e229221aada0cc88d5d6fd58f46f72eb626bd37b8e94efc8"
        :> <<3, 12, 5, 2, 12, 6, 3, 12, 0, 11, 8, 13, 9, 3, 8, 6, 8, 14, 8, 3, 7, 10, 6, 10, 13, 2, 13, 6, 10, 12, 0, 10, 4, 4, 12, 8, 14, 10, 3, 15, 15, 13, 2, 6, 14, 11, 15, 11, 12, 15, 6, 8, 6, 8, 9, 11, 3, 14, 13, 8, 4, 6, 10, 10>>))
    @@
    (("(None, 7)7d3c95f98bd2b66af7c1d3a16cad13e01562539e02afc9695b86a5416092645f0af7ba66f9a27ed0e229221aada0cc88d5d6fd58f46f72eb626bd37b8e94efc80af7ba66f9a27ed0e229221aada0cc88d5d6fd58f46f72eb626bd37b8e94efc8"
        :> <<15, 6, 2, 8, 5, 14, 7, 2, 13, 10, 1, 10, 10, 1, 2, 14, 8, 5, 12, 8, 8, 9, 14, 0, 14, 0, 8, 13, 5, 0, 7, 11, 13, 5, 15, 6, 12, 2, 12, 11, 12, 11, 3, 15, 14, 1, 12, 7, 5, 7, 4, 2, 1, 8, 15, 15, 4, 7, 14, 13, 14, 2, 1, 8>>)
    @@
    ("(None, 7)7d3c95f98bd2b66af7c1d3a16cad13e01562539e02afc9695b86a5416092645f0af7ba66f9a27ed0e229221aada0cc88d5d6fd58f46f72eb626bd37b8e94efc80f953d12a939fe4ef354fff77564841627136a6bf3667b256c4a5cb6768788da"
        :> <<7, 11, 9, 15, 8, 11, 8, 4, 4, 11, 8, 6, 1, 14, 2, 14, 3, 4, 15, 0, 0, 8, 4, 14, 8, 12, 4, 10, 6, 9, 5, 9, 14, 6, 8, 2, 6, 1, 15, 2, 8, 6, 8, 5, 2, 8, 0, 12, 2, 2, 11, 3, 14, 2, 4, 15, 6, 7, 13, 0, 15, 0, 2, 6>>)))))))))
    @@
    (((((((("(None, 7)7d3c95f98bd2b66af7c1d3a16cad13e01562539e02afc9695b86a5416092645f0af7ba66f9a27ed0e229221aada0cc88d5d6fd58f46f72eb626bd37b8e94efc8140fc148a380d69b8753d296355d450a4c606dfa652482747ab694cd6ac23972"
        :> <<10, 10, 5, 7, 1, 9, 2, 13, 0, 1, 11, 5, 1, 3, 12, 15, 3, 10, 3, 2, 0, 2, 4, 6, 3, 4, 14, 10, 4, 10, 15, 15, 9, 3, 1, 7, 15, 2, 2, 14, 2, 1, 3, 11, 7, 6, 14, 5, 12, 12, 6, 11, 7, 6, 10, 5, 2, 1, 6, 11, 3, 6, 3, 14>>)
    @@
    (("(None, 7)7d3c95f98bd2b66af7c1d3a16cad13e01562539e02afc9695b86a5416092645f0af7ba66f9a27ed0e229221aada0cc88d5d6fd58f46f72eb626bd37b8e94efc87d3c95f98bd2b66af7c1d3a16cad13e01562539e02afc9695b86a5416092645f"
        :> <<0, 4, 2, 11, 4, 9, 9, 5, 8, 8, 12, 11, 4, 2, 9, 11, 6, 11, 7, 5, 0, 15, 2, 15, 3, 8, 5, 8, 4, 8, 10, 7, 13, 11, 15, 4, 13, 15, 2, 7, 5, 7, 4, 1, 15, 12, 8, 12, 8, 14, 1, 1, 0, 10, 1, 11, 7, 1, 10, 11, 8, 13, 6, 2>>)
    @@
    ("(None, 7)7d3c95f98bd2b66af7c1d3a16cad13e01562539e02afc9695b86a5416092645f0f953d12a939fe4ef354fff77564841627136a6bf3667b256c4a5cb6768788da"
        :> <<9, 0, 10, 0, 2, 7, 13, 1, 9, 6, 3, 15, 8, 11, 10, 8, 3, 14, 6, 12, 14, 13, 11, 2, 15, 13, 12, 3, 10, 9, 11, 9, 12, 10, 1, 1, 2, 15, 6, 3, 5, 4, 10, 2, 13, 5, 15, 2, 9, 8, 15, 2, 5, 14, 4, 5, 14, 5, 4, 2, 11, 6, 4, 6>>)))
    @@
    (("(None, 7)7d3c95f98bd2b66af7c1d3a16cad13e01562539e02afc9695b86a5416092645f0f953d12a939fe4ef354fff77564841627136a6bf3667b256c4a5cb6768788da0af7ba66f9a27ed0e229221aada0cc88d5d6fd58f46f72eb626bd37b8e94efc8"
        :> <<2, 0, 12, 1, 15, 15, 13, 1, 11, 7, 2, 1, 13, 6, 3, 15, 7, 1, 14, 15, 2, 5, 5, 1, 4, 6, 1, 0, 1, 12, 8, 8, 7, 14, 12, 9, 6, 10, 7, 1, 12, 7, 6, 0, 4, 0, 2, 4, 1, 4, 8, 11, 3, 10, 2, 7, 12, 1, 8, 14, 9, 14, 3, 1>>)
    @@
    (("(None, 7)7d3c95f98bd2b66af7c1d3a16cad13e01562539e02afc9695b86a5416092645f0f953d12a939fe4ef354fff77564841627136a6bf3667b256c4a5cb6768788da0f953d12a939fe4ef354fff77564841627136a6bf3667b256c4a5cb6768788da"
        :> <<9, 9, 0, 2, 5, 6, 10, 8, 1, 9, 15, 3, 3, 3, 5, 2, 15, 6, 3, 6, 9, 14, 1, 9, 13, 12, 3, 7, 5, 1, 15, 10, 9, 1, 11, 15, 6, 12, 13, 13, 14, 1, 12, 12, 1, 2, 1, 2, 1, 14, 4, 13, 5, 2, 2, 15, 3, 10, 3, 8, 0, 0, 10, 10>>)
    @@
    ("(None, 7)7d3c95f98bd2b66af7c1d3a16cad13e01562539e02afc9695b86a5416092645f0f953d12a939fe4ef354fff77564841627136a6bf3667b256c4a5cb6768788da140fc148a380d69b8753d296355d450a4c606dfa652482747ab694cd6ac23972"
        :> <<8, 13, 14, 7, 4, 10, 6, 0, 13, 5, 2, 11, 0, 2, 9, 12, 5, 6, 3, 10, 3, 3, 1, 4, 12, 11, 2, 1, 7, 1, 13, 15, 4, 0, 4, 9, 12, 1, 6, 0, 8, 14, 8, 15, 14, 12, 8, 9, 4, 10, 12, 0, 12, 15, 4, 13, 15, 13, 12, 4, 1, 14, 0, 11>>))))
    @@
    ((("(None, 7)7d3c95f98bd2b66af7c1d3a16cad13e01562539e02afc9695b86a5416092645f0f953d12a939fe4ef354fff77564841627136a6bf3667b256c4a5cb6768788da7d3c95f98bd2b66af7c1d3a16cad13e01562539e02afc9695b86a5416092645f"
        :> <<14, 15, 15, 9, 0, 8, 13, 10, 9, 12, 7, 8, 11, 11, 3, 4, 6, 7, 0, 3, 6, 3, 13, 11, 3, 13, 2, 11, 9, 0, 12, 6, 12, 8, 3, 1, 2, 13, 6, 11, 12, 6, 12, 3, 9, 8, 10, 2, 2, 0, 8, 0, 0, 3, 15, 11, 12, 0, 3, 10, 4, 8, 4, 4>>)
    @@
    (("(None, 7)7d3c95f98bd2b66af7c1d3a16cad13e01562539e02afc9695b86a5416092645f140fc148a380d69b8753d296355d450a4c606dfa652482747ab694cd6ac23972"
        :> <<1, 8, 15, 10, 10, 11, 14, 4, 10, 4, 10, 7, 13, 3, 0, 7, 4, 1, 6, 10, 15, 3, 12, 10, 7, 8, 13, 15, 15, 10, 9, 5, 0, 1, 4, 4, 8, 15, 3, 4, 5, 12, 5, 8, 12, 6, 4, 9, 5, 14, 6, 13, 4, 9, 14, 12, 2, 1, 12, 12, 7, 2, 14, 2>>)
    @@
    ("(None, 7)7d3c95f98bd2b66af7c1d3a16cad13e01562539e02afc9695b86a5416092645f140fc148a380d69b8753d296355d450a4c606dfa652482747ab694cd6ac239720af7ba66f9a27ed0e229221aada0cc88d5d6fd58f46f72eb626bd37b8e94efc8"
        :> <<10, 5, 15, 8, 0, 13, 6, 12, 7, 9, 15, 7, 5, 13, 2, 2, 1, 9, 2, 5, 14, 1, 14, 11, 14, 10, 6, 3, 3, 3, 3, 12, 8, 10, 9, 2, 13, 7, 7, 6, 6, 1, 9, 11, 6, 3, 10, 3, 4, 8, 7, 10, 6, 7, 13, 6, 12, 14, 15, 12, 7, 2, 8, 10>>)))
    @@
    ((("(None, 7)7d3c95f98bd2b66af7c1d3a16cad13e01562539e02afc9695b86a5416092645f140fc148a380d69b8753d296355d450a4c606dfa652482747ab694cd6ac239720f953d12a939fe4ef354fff77564841627136a6bf3667b256c4a5cb6768788da"
        :> <<0, 5, 2, 13, 11, 8, 0, 9, 11, 1, 14, 9, 15, 2, 3, 13, 11, 6, 8, 12, 1, 15, 10, 2, 8, 11, 8, 9, 9, 15, 9, 15, 7, 0, 2, 8, 3, 1, 7, 5, 13, 15, 10, 13, 13, 6, 13, 7, 8, 0, 2, 10, 4, 5, 9, 3, 1, 15, 5, 1, 6, 10, 12, 2>>)
    @@
    ("(None, 7)7d3c95f98bd2b66af7c1d3a16cad13e01562539e02afc9695b86a5416092645f140fc148a380d69b8753d296355d450a4c606dfa652482747ab694cd6ac23972140fc148a380d69b8753d296355d450a4c606dfa652482747ab694cd6ac23972"
        :> <<14, 7, 11, 4, 3, 7, 4, 3, 3, 13, 13, 8, 2, 13, 1, 14, 8, 3, 14, 6, 7, 14, 8, 0, 0, 13, 11, 7, 2, 4, 9, 15, 2, 6, 1, 11, 7, 14, 9, 14, 8, 6, 13, 6, 15, 4, 3, 2, 2, 5, 12, 9, 8, 7, 5, 15, 5, 7, 12, 8, 6, 6, 4, 2>>))
    @@
    (("(None, 7)7d3c95f98bd2b66af7c1d3a16cad13e01562539e02afc9695b86a5416092645f140fc148a380d69b8753d296355d450a4c606dfa652482747ab694cd6ac239727d3c95f98bd2b66af7c1d3a16cad13e01562539e02afc9695b86a5416092645f"
        :> <<5, 6, 4, 0, 15, 4, 1, 11, 0, 9, 15, 0, 9, 14, 1, 6, 15, 11, 13, 1, 13, 6, 1, 6, 14, 9, 3, 2, 14, 14, 0, 10, 5, 11, 0, 11, 4, 1, 7, 3, 7, 0, 12, 10, 11, 9, 14, 3, 4, 8, 3, 3, 15, 3, 8, 13, 14, 15, 14, 14, 7, 6, 15, 0>>)
    @@
    ("(None, 7)7d3c95f98bd2b66af7c1d3a16cad13e01562539e02afc9695b86a5416092645f7d3c95f98bd2b66af7c1d3a16cad13e01562539e02afc9695b86a5416092645f"
        :> <<5, 11, 15, 0, 8, 11, 0, 1, 9, 5, 12, 9, 11, 5, 8, 4, 5, 0, 11, 3, 6, 0, 4, 10, 14, 0, 8, 6, 15, 4, 4, 8, 0, 8, 3, 0, 0, 3, 14, 10, 2, 14, 13, 11, 9, 0, 8, 3, 2, 6, 9, 1, 2, 13, 10, 6, 11, 14, 6, 9, 10, 4, 12, 5>>)))))
    @@
    (((("(None, 7)7d3c95f98bd2b66af7c1d3a16cad13e01562539e02afc9695b86a5416092645f7d3c95f98bd2b66af7c1d3a16cad13e01562539e02afc9695b86a5416092645f0af7ba66f9a27ed0e229221aada0cc88d5d6fd58f46f72eb626bd37b8e94efc8"
        :> <<0, 11, 12, 9, 7, 5, 6, 1, 6, 3, 12, 7, 14, 6, 12, 0, 11, 2, 15, 8, 9, 0, 15, 15, 13, 8, 6, 9, 10, 11, 7, 9, 3, 12, 0, 11, 10, 11, 14, 5, 3, 12, 15, 4, 10, 4, 7, 2, 5, 10, 3, 8, 4, 14, 14, 14, 7, 0, 5, 4, 8, 7, 12, 15>>)
    @@
    (("(None, 7)7d3c95f98bd2b66af7c1d3a16cad13e01562539e02afc9695b86a5416092645f7d3c95f98bd2b66af7c1d3a16cad13e01562539e02afc9695b86a5416092645f0f953d12a939fe4ef354fff77564841627136a6bf3667b256c4a5cb6768788da"
        :> <<8, 5, 10, 0, 2, 4, 14, 11, 14, 9, 11, 11, 3, 5, 9, 14, 7, 2, 1, 1, 11, 15, 0, 12, 7, 10, 2, 4, 1, 9, 15, 8, 3, 2, 9, 10, 12, 7, 9, 12, 3, 6, 7, 1, 12, 15, 8, 2, 2, 7, 3, 12, 4, 13, 0, 15, 0, 4, 14, 4, 9, 14, 4, 5>>)
    @@
    ("(None, 7)7d3c95f98bd2b66af7c1d3a16cad13e01562539e02afc9695b86a5416092645f7d3c95f98bd2b66af7c1d3a16cad13e01562539e02afc9695b86a5416092645f140fc148a380d69b8753d296355d450a4c606dfa652482747ab694cd6ac23972"
        :> <<0, 2, 8, 4, 9, 6, 3, 10, 2, 12, 0, 2, 13, 9, 1, 13, 3, 4, 9, 7, 12, 3, 8, 3, 7, 11, 12, 3, 10, 3, 0, 9, 2, 14, 7, 9, 11, 1, 11, 0, 12, 11, 13, 4, 0, 4, 1, 5, 6, 9, 14, 14, 0, 7, 5, 7, 0, 4, 5, 2, 7, 2, 4, 8>>)))
    @@
    (("(None, 7)7d3c95f98bd2b66af7c1d3a16cad13e01562539e02afc9695b86a5416092645f7d3c95f98bd2b66af7c1d3a16cad13e01562539e02afc9695b86a5416092645f7d3c95f98bd2b66af7c1d3a16cad13e01562539e02afc9695b86a5416092645f"
        :> <<9, 11, 0, 6, 6, 9, 7, 15, 2, 15, 4, 14, 11, 5, 15, 15, 8, 15, 14, 8, 2, 7, 15, 11, 3, 11, 12, 8, 4, 14, 12, 12, 7, 9, 7, 15, 0, 7, 14, 5, 13, 9, 4, 8, 10, 10, 8, 1, 0, 10, 14, 13, 6, 12, 8, 7, 1, 7, 14, 5, 2, 6, 11, 1>>)
    @@
    (("(None, 99)"
        :> <<6, 1, 6, 4, 14, 2, 0, 10, 12, 3, 13, 14, 1, 5, 12, 11, 14, 6, 8, 7, 3, 13, 1, 5, 3, 3, 8, 10, 14, 3, 9, 3, 9, 2, 7, 8, 4, 13, 7, 2, 9, 13, 14, 14, 7, 10, 4, 5, 3, 0, 12, 10, 5, 1, 3, 5, 5, 8, 8, 12, 14, 2, 4, 14>>)
    @@
    ("(Some(\"027f4d5d7653accdf09afd557dfa4a39a4211a55ccbba7838b4ac4cb0fb0b03c\"), 0)"
        :> <<7, 12, 1, 1, 2, 3, 15, 7, 7, 4, 7, 2, 11, 2, 12, 12, 8, 4, 11, 4, 5, 13, 4, 8, 3, 14, 8, 14, 4, 4, 5, 14, 0, 2, 0, 0, 14, 14, 10, 2, 11, 3, 7, 5, 13, 7, 1, 5, 2, 14, 12, 10, 6, 0, 9, 15, 12, 14, 2, 5, 9, 3, 9, 5>>))))
    @@
    ((("(Some(\"027f4d5d7653accdf09afd557dfa4a39a4211a55ccbba7838b4ac4cb0fb0b03c\"), 2)"
        :> <<15, 7, 3, 13, 12, 4, 1, 8, 4, 4, 15, 5, 7, 14, 14, 3, 2, 3, 12, 15, 7, 15, 13, 11, 12, 4, 6, 5, 2, 2, 15, 7, 13, 7, 14, 10, 4, 8, 15, 5, 1, 5, 8, 2, 15, 9, 14, 10, 5, 4, 15, 6, 10, 2, 4, 8, 15, 10, 10, 9, 8, 10, 9, 6>>)
    @@
    (("(Some(\"027f4d5d7653accdf09afd557dfa4a39a4211a55ccbba7838b4ac4cb0fb0b03c\"), 3)"
        :> <<9, 7, 12, 5, 13, 5, 4, 3, 0, 0, 6, 15, 15, 11, 15, 9, 5, 4, 3, 14, 14, 14, 8, 15, 15, 0, 9, 10, 4, 4, 5, 6, 12, 3, 4, 0, 5, 0, 1, 7, 10, 12, 0, 4, 7, 12, 8, 14, 10, 12, 15, 13, 6, 14, 15, 14, 7, 12, 15, 8, 14, 14, 14, 9>>)
    @@
    ("(Some(\"027f4d5d7653accdf09afd557dfa4a39a4211a55ccbba7838b4ac4cb0fb0b03c\"), 4)"
        :> <<7, 6, 2, 6, 8, 10, 13, 0, 14, 15, 3, 0, 6, 13, 12, 14, 15, 2, 11, 14, 9, 14, 1, 1, 7, 10, 0, 9, 14, 10, 8, 15, 0, 4, 11, 14, 7, 5, 7, 5, 5, 8, 1, 11, 7, 5, 12, 0, 2, 2, 2, 11, 8, 11, 5, 9, 15, 0, 3, 8, 4, 9, 4, 11>>)))
    @@
    ((("(Some(\"027f4d5d7653accdf09afd557dfa4a39a4211a55ccbba7838b4ac4cb0fb0b03c\"), 5)"
        :> <<3, 12, 1, 6, 11, 2, 4, 5, 15, 15, 8, 13, 10, 8, 7, 2, 11, 8, 4, 0, 15, 2, 6, 10, 10, 1, 15, 3, 15, 1, 10, 4, 12, 6, 14, 0, 9, 11, 2, 0, 7, 5, 9, 1, 0, 4, 2, 7, 8, 1, 12, 0, 7, 10, 12, 13, 7, 4, 4, 7, 4, 7, 7, 3>>)
    @@
    ("(Some(\"027f4d5d7653accdf09afd557dfa4a39a4211a55ccbba7838b4ac4cb0fb0b03c\"), 6)"
        :> <<14, 12, 0, 9, 8, 15, 2, 15, 13, 6, 1, 3, 9, 9, 0, 7, 6, 10, 14, 10, 10, 15, 3, 4, 11, 15, 12, 2, 2, 0, 14, 13, 1, 1, 15, 13, 3, 13, 4, 1, 6, 6, 11, 13, 10, 6, 10, 7, 15, 15, 6, 10, 7, 11, 3, 5, 15, 11, 0, 6, 15, 2, 0, 12>>))
    @@
    (("(Some(\"027f4d5d7653accdf09afd557dfa4a39a4211a55ccbba7838b4ac4cb0fb0b03c\"), 7)"
        :> <<6, 10, 7, 13, 13, 4, 15, 11, 9, 15, 8, 11, 7, 14, 10, 3, 4, 7, 7, 10, 2, 15, 3, 11, 7, 9, 7, 11, 9, 12, 11, 8, 11, 12, 14, 11, 9, 1, 3, 9, 6, 7, 10, 3, 8, 5, 1, 7, 1, 4, 6, 12, 13, 8, 10, 9, 0, 10, 6, 10, 2, 1, 14, 10>>)
    @@
    ("(Some(\"04dda703114c892000e86a1341736d27e89f0440626779f483f9d1e42d9befc4\"), 0)"
        :> <<3, 8, 8, 15, 10, 9, 6, 4, 6, 5, 10, 2, 3, 5, 0, 9, 1, 2, 4, 6, 2, 4, 1, 10, 15, 15, 6, 4, 6, 14, 11, 8, 13, 15, 12, 4, 11, 2, 1, 13, 15, 14, 15, 6, 2, 0, 4, 13, 6, 6, 3, 7, 5, 11, 8, 2, 9, 9, 9, 6, 4, 4, 7, 8>>))))))
    @@
    ((((("(Some(\"04dda703114c892000e86a1341736d27e89f0440626779f483f9d1e42d9befc4\"), 2)"
        :> <<1, 10, 15, 9, 8, 0, 6, 11, 2, 13, 6, 14, 10, 7, 14, 14, 5, 4, 11, 2, 13, 1, 0, 3, 3, 4, 13, 13, 4, 1, 8, 9, 12, 11, 8, 12, 1, 15, 6, 0, 8, 11, 1, 11, 7, 8, 1, 11, 12, 4, 7, 15, 14, 13, 0, 6, 6, 11, 12, 13, 13, 7, 3, 12>>)
    @@
    (("(Some(\"04dda703114c892000e86a1341736d27e89f0440626779f483f9d1e42d9befc4\"), 3)"
        :> <<13, 11, 5, 10, 8, 6, 13, 11, 12, 6, 4, 13, 9, 10, 15, 4, 11, 9, 1, 6, 13, 5, 11, 14, 11, 8, 0, 10, 8, 2, 6, 6, 3, 4, 11, 15, 2, 3, 5, 3, 0, 11, 7, 12, 1, 2, 9, 6, 14, 2, 12, 2, 13, 0, 4, 7, 15, 5, 8, 9, 11, 13, 7, 4>>)
    @@
    ("(Some(\"04dda703114c892000e86a1341736d27e89f0440626779f483f9d1e42d9befc4\"), 4)"
        :> <<6, 13, 11, 15, 8, 15, 2, 8, 9, 13, 10, 10, 14, 0, 5, 0, 1, 7, 1, 15, 13, 5, 2, 1, 11, 15, 1, 2, 8, 2, 7, 14, 13, 9, 0, 5, 3, 11, 15, 6, 5, 14, 9, 5, 7, 10, 8, 3, 14, 15, 3, 13, 15, 5, 4, 4, 15, 3, 2, 9, 10, 13, 9, 8>>)))
    @@
    (("(Some(\"04dda703114c892000e86a1341736d27e89f0440626779f483f9d1e42d9befc4\"), 5)"
        :> <<3, 1, 12, 10, 1, 7, 4, 11, 1, 0, 7, 12, 2, 5, 0, 4, 6, 2, 12, 13, 4, 0, 4, 8, 1, 12, 4, 1, 13, 3, 2, 15, 5, 7, 10, 2, 0, 7, 6, 11, 12, 7, 9, 12, 12, 4, 3, 7, 7, 15, 9, 12, 15, 10, 4, 12, 7, 7, 13, 6, 2, 15, 10, 12>>)
    @@
    (("(Some(\"04dda703114c892000e86a1341736d27e89f0440626779f483f9d1e42d9befc4\"), 6)"
        :> <<3, 10, 12, 5, 2, 13, 3, 0, 2, 15, 3, 12, 10, 2, 7, 8, 14, 11, 4, 5, 15, 6, 3, 6, 1, 14, 13, 15, 9, 8, 12, 9, 4, 9, 4, 0, 5, 14, 7, 10, 0, 1, 15, 4, 6, 6, 8, 11, 0, 11, 13, 14, 13, 10, 7, 5, 7, 13, 4, 8, 3, 10, 13, 6>>)
    @@
    ("(Some(\"04dda703114c892000e86a1341736d27e89f0440626779f483f9d1e42d9befc4\"), 7)"
        :> <<14, 6, 15, 0, 3, 3, 4, 10, 2, 5, 8, 4, 9, 15, 15, 6, 10, 8, 10, 8, 13, 7, 7, 6, 15, 5, 12, 7, 6, 7, 11, 8, 11, 14, 4, 4, 8, 3, 11, 9, 9, 9, 9, 13, 0, 4, 2, 11, 7, 14, 8, 15, 0, 15, 10, 12, 0, 6, 10, 3, 4, 8, 10, 12>>))))
    @@
    ((("(Some(\"0cc9b5926fec5d3bb2baeffc854312971a75b292e67aa238c86205a4fdb294af\"), 0)"
        :> <<14, 9, 2, 11, 13, 3, 4, 4, 8, 0, 7, 5, 4, 0, 8, 13, 9, 15, 7, 12, 1, 5, 14, 13, 11, 1, 15, 6, 6, 2, 6, 9, 1, 1, 7, 4, 14, 0, 10, 0, 1, 15, 12, 5, 5, 12, 8, 8, 7, 11, 0, 14, 13, 8, 15, 11, 5, 2, 2, 4, 15, 2, 0, 13>>)
    @@
    (("(Some(\"0cc9b5926fec5d3bb2baeffc854312971a75b292e67aa238c86205a4fdb294af\"), 2)"
        :> <<10, 15, 13, 1, 1, 8, 2, 6, 3, 4, 1, 4, 2, 1, 15, 10, 10, 12, 2, 8, 0, 11, 12, 13, 6, 1, 0, 15, 10, 1, 11, 8, 7, 2, 11, 10, 6, 11, 6, 10, 15, 13, 6, 1, 0, 4, 0, 1, 9, 12, 11, 9, 1, 11, 1, 9, 15, 7, 6, 1, 0, 9, 0, 5>>)
    @@
    ("(Some(\"0cc9b5926fec5d3bb2baeffc854312971a75b292e67aa238c86205a4fdb294af\"), 3)"
        :> <<7, 6, 15, 4, 3, 0, 3, 2, 0, 1, 5, 0, 11, 15, 9, 5, 1, 10, 11, 12, 4, 6, 6, 14, 5, 11, 4, 8, 8, 11, 5, 5, 11, 0, 2, 5, 9, 13, 15, 3, 13, 9, 12, 12, 5, 15, 14, 5, 10, 12, 11, 9, 14, 6, 10, 3, 0, 6, 4, 13, 8, 10, 9, 4>>)))
    @@
    ((("(Some(\"0cc9b5926fec5d3bb2baeffc854312971a75b292e67aa238c86205a4fdb294af\"), 4)"
        :> <<6, 0, 3, 3, 2, 5, 7, 13, 15, 4, 7, 7, 8, 5, 7, 4, 7, 2, 11, 13, 0, 4, 14, 13, 11, 10, 8, 9, 11, 12, 7, 1, 5, 6, 0, 4, 0, 1, 7, 4, 4, 3, 8, 2, 15, 9, 2, 8, 5, 15, 6, 0, 14, 4, 3, 0, 3, 8, 13, 12, 3, 14, 15, 14>>)
    @@
    ("(Some(\"0cc9b5926fec5d3bb2baeffc854312971a75b292e67aa238c86205a4fdb294af\"), 5)"
        :> <<3, 10, 4, 2, 14, 15, 1, 2, 12, 10, 15, 15, 4, 2, 6, 12, 2, 14, 14, 8, 9, 3, 9, 9, 1, 11, 3, 15, 14, 5, 14, 9, 1, 13, 5, 9, 12, 9, 9, 3, 6, 8, 5, 15, 9, 13, 14, 9, 3, 2, 4, 12, 13, 6, 15, 0, 2, 6, 3, 9, 5, 0, 7, 7>>))
    @@
    (("(Some(\"0cc9b5926fec5d3bb2baeffc854312971a75b292e67aa238c86205a4fdb294af\"), 6)"
        :> <<6, 10, 5, 13, 13, 8, 5, 9, 13, 9, 3, 0, 5, 8, 0, 2, 8, 10, 1, 2, 6, 13, 0, 0, 14, 9, 14, 14, 15, 11, 4, 11, 12, 1, 7, 1, 14, 10, 7, 10, 0, 6, 7, 1, 4, 0, 9, 3, 6, 2, 5, 0, 14, 9, 11, 10, 1, 15, 5, 0, 0, 11, 15, 2>>)
    @@
    ("(Some(\"0cc9b5926fec5d3bb2baeffc854312971a75b292e67aa238c86205a4fdb294af\"), 7)"
        :> <<8, 7, 12, 14, 11, 6, 12, 14, 12, 4, 6, 15, 2, 0, 10, 9, 3, 15, 13, 4, 9, 13, 14, 5, 7, 2, 6, 0, 10, 13, 9, 9, 7, 2, 15, 10, 15, 7, 3, 5, 7, 4, 15, 4, 10, 3, 11, 0, 10, 9, 3, 11, 11, 4, 0, 0, 2, 11, 12, 4, 4, 9, 13, 4>>)))))
    @@
    (((("(Some(\"118d5c749bf1d66cf64b33811b568662a56288f18fa5e957d4cae3fa6cc8403a\"), 0)"
        :> <<2, 8, 15, 6, 4, 4, 3, 6, 9, 6, 12, 5, 12, 2, 6, 14, 14, 14, 2, 10, 11, 7, 14, 3, 13, 8, 3, 13, 1, 5, 1, 15, 9, 11, 8, 1, 5, 11, 0, 0, 7, 7, 2, 15, 11, 13, 12, 10, 6, 12, 7, 4, 9, 13, 0, 8, 15, 10, 13, 3, 3, 1, 1, 4>>)
    @@
    (("(Some(\"118d5c749bf1d66cf64b33811b568662a56288f18fa5e957d4cae3fa6cc8403a\"), 2)"
        :> <<3, 11, 1, 1, 1, 13, 15, 2, 10, 2, 1, 0, 6, 2, 10, 2, 7, 11, 6, 5, 5, 14, 12, 2, 7, 13, 0, 14, 0, 0, 3, 8, 9, 10, 8, 4, 7, 10, 1, 13, 15, 7, 9, 8, 13, 5, 11, 15, 11, 13, 1, 11, 2, 2, 7, 9, 6, 4, 15, 6, 5, 13, 3, 7>>)
    @@
    ("(Some(\"118d5c749bf1d66cf64b33811b568662a56288f18fa5e957d4cae3fa6cc8403a\"), 3)"
        :> <<7, 8, 7, 7, 2, 13, 3, 8, 10, 13, 6, 0, 13, 4, 0, 2, 7, 11, 5, 9, 3, 6, 4, 6, 11, 1, 10, 5, 1, 7, 10, 6, 9, 15, 2, 7, 6, 1, 4, 9, 10, 4, 2, 5, 15, 3, 4, 11, 0, 14, 7, 5, 13, 10, 11, 3, 5, 2, 1, 11, 0, 0, 13, 10>>)))
    @@
    (("(Some(\"118d5c749bf1d66cf64b33811b568662a56288f18fa5e957d4cae3fa6cc8403a\"), 4)"
        :> <<4, 8, 12, 2, 10, 7, 10, 13, 1, 8, 12, 2, 1, 2, 7, 12, 0, 11, 4, 15, 11, 4, 3, 9, 15, 4, 11, 1, 0, 9, 6, 5, 12, 13, 14, 10, 1, 9, 12, 0, 9, 12, 12, 2, 4, 1, 13, 5, 6, 7, 9, 5, 11, 12, 2, 7, 9, 6, 7, 1, 12, 8, 5, 7>>)
    @@
    (("(Some(\"118d5c749bf1d66cf64b33811b568662a56288f18fa5e957d4cae3fa6cc8403a\"), 5)"
        :> <<9, 0, 4, 12, 8, 5, 7, 14, 1, 8, 7, 6, 10, 15, 1, 9, 4, 4, 14, 6, 9, 3, 8, 15, 4, 14, 3, 12, 3, 1, 3, 15, 0, 13, 14, 1, 3, 9, 12, 6, 7, 12, 4, 6, 15, 6, 7, 5, 6, 0, 12, 15, 6, 3, 4, 14, 7, 5, 9, 5, 14, 0, 7, 9>>)
    @@
    ("(Some(\"118d5c749bf1d66cf64b33811b568662a56288f18fa5e957d4cae3fa6cc8403a\"), 6)"
        :> <<3, 11, 9, 9, 2, 7, 7, 2, 2, 1, 10, 7, 4, 14, 9, 1, 1, 2, 7, 9, 10, 3, 12, 0, 9, 11, 2, 14, 10, 0, 2, 0, 5, 10, 1, 3, 1, 0, 14, 1, 4, 13, 6, 5, 15, 15, 12, 0, 0, 14, 0, 0, 8, 5, 15, 1, 8, 6, 15, 11, 10, 5, 14, 2>>))))
    @@
    ((("(Some(\"118d5c749bf1d66cf64b33811b568662a56288f18fa5e957d4cae3fa6cc8403a\"), 7)"
        :> <<11, 3, 11, 5, 15, 14, 15, 15, 15, 6, 13, 15, 7, 13, 0, 9, 3, 5, 1, 7, 14, 3, 11, 7, 9, 9, 5, 1, 13, 11, 5, 15, 1, 15, 9, 3, 7, 7, 8, 9, 3, 4, 7, 12, 11, 12, 1, 10, 12, 11, 1, 12, 10, 2, 6, 1, 13, 5, 1, 11, 5, 4, 9, 8>>)
    @@
    (("(Some(\"13545a0d8292db793220ce203058bd009e2c1eb414686f5dbe64d545f8777eda\"), 0)"
        :> <<2, 1, 14, 0, 11, 12, 11, 11, 8, 11, 6, 12, 13, 10, 15, 11, 6, 7, 12, 0, 2, 12, 1, 2, 1, 7, 9, 4, 0, 2, 14, 6, 3, 15, 2, 6, 3, 1, 13, 9, 8, 5, 13, 1, 0, 5, 8, 3, 9, 11, 14, 6, 10, 7, 1, 2, 13, 13, 5, 12, 1, 12, 8, 10>>)
    @@
    ("(Some(\"13545a0d8292db793220ce203058bd009e2c1eb414686f5dbe64d545f8777eda\"), 2)"
        :> <<2, 7, 3, 15, 0, 9, 1, 10, 6, 8, 11, 13, 5, 8, 1, 5, 11, 9, 8, 15, 5, 9, 13, 14, 3, 5, 11, 11, 3, 15, 13, 11, 11, 2, 13, 9, 12, 15, 0, 4, 11, 9, 14, 0, 7, 9, 7, 0, 5, 12, 3, 3, 5, 3, 14, 7, 3, 8, 5, 10, 1, 0, 2, 0>>)))
    @@
    ((("(Some(\"13545a0d8292db793220ce203058bd009e2c1eb414686f5dbe64d545f8777eda\"), 3)"
        :> <<15, 9, 1, 0, 10, 9, 14, 0, 4, 12, 4, 7, 9, 4, 13, 8, 1, 8, 4, 7, 0, 13, 9, 8, 5, 2, 11, 11, 13, 0, 6, 1, 2, 6, 12, 13, 0, 6, 4, 5, 1, 3, 9, 11, 12, 8, 3, 6, 0, 14, 9, 1, 7, 6, 11, 12, 11, 3, 12, 11, 9, 8, 4, 0>>)
    @@
    ("(Some(\"13545a0d8292db793220ce203058bd009e2c1eb414686f5dbe64d545f8777eda\"), 4)"
        :> <<5, 11, 2, 11, 12, 13, 4, 9, 9, 12, 11, 2, 9, 6, 10, 15, 3, 11, 7, 2, 1, 12, 12, 6, 13, 3, 15, 0, 6, 6, 14, 13, 14, 14, 5, 14, 10, 6, 3, 3, 12, 13, 1, 6, 12, 3, 1, 10, 2, 0, 3, 14, 10, 0, 1, 15, 9, 7, 4, 12, 12, 10, 6, 1>>))
    @@
    (("(Some(\"13545a0d8292db793220ce203058bd009e2c1eb414686f5dbe64d545f8777eda\"), 5)"
        :> <<2, 15, 9, 6, 15, 2, 4, 0, 12, 6, 6, 15, 10, 4, 15, 9, 6, 8, 3, 4, 14, 13, 2, 7, 15, 3, 11, 12, 5, 1, 6, 7, 14, 2, 10, 8, 15, 5, 5, 8, 15, 8, 5, 14, 15, 12, 12, 13, 4, 1, 2, 8, 8, 7, 1, 4, 13, 13, 1, 14, 0, 9, 12, 9>>)
    @@
    ("(Some(\"13545a0d8292db793220ce203058bd009e2c1eb414686f5dbe64d545f8777eda\"), 6)"
        :> <<14, 4, 4, 13, 13, 11, 2, 7, 11, 9, 10, 10, 0, 11, 10, 15, 11, 4, 0, 5, 14, 0, 0, 12, 12, 8, 10, 1, 2, 2, 1, 14, 7, 9, 8, 1, 7, 1, 3, 13, 6, 8, 11, 13, 12, 9, 15, 13, 15, 9, 6, 0, 1, 12, 15, 13, 10, 12, 8, 11, 7, 9, 3, 3>>)))))))
    @@
    (((((("(Some(\"13545a0d8292db793220ce203058bd009e2c1eb414686f5dbe64d545f8777eda\"), 7)"
        :> <<12, 10, 14, 0, 2, 14, 11, 11, 8, 4, 10, 10, 7, 12, 3, 0, 8, 1, 3, 5, 10, 8, 8, 7, 1, 12, 2, 10, 12, 10, 14, 14, 8, 7, 4, 7, 15, 0, 14, 3, 4, 3, 3, 10, 13, 7, 14, 10, 13, 9, 6, 7, 11, 2, 15, 13, 15, 8, 10, 6, 6, 12, 2, 13>>)
    @@
    (("(Some(\"15e9bd058d1acabf445ccef7efca7bbdd8f813a9eef9c4898f7bef20b317627a\"), 0)"
        :> <<14, 2, 6, 5, 15, 15, 3, 2, 12, 3, 8, 14, 12, 14, 15, 1, 9, 14, 2, 15, 10, 2, 9, 1, 8, 4, 0, 9, 3, 1, 2, 9, 10, 3, 8, 8, 5, 1, 4, 0, 2, 1, 2, 12, 1, 2, 1, 10, 1, 6, 1, 11, 15, 9, 2, 13, 13, 13, 7, 13, 5, 2, 1, 12>>)
    @@
    ("(Some(\"15e9bd058d1acabf445ccef7efca7bbdd8f813a9eef9c4898f7bef20b317627a\"), 2)"
        :> <<15, 3, 0, 10, 11, 13, 0, 15, 8, 14, 1, 0, 11, 1, 7, 11, 0, 12, 8, 11, 14, 13, 4, 7, 0, 11, 10, 2, 3, 3, 5, 13, 14, 12, 7, 8, 7, 3, 13, 11, 15, 14, 2, 9, 2, 13, 8, 12, 14, 1, 11, 10, 0, 7, 13, 1, 0, 11, 10, 1, 1, 6, 12, 14>>)))
    @@
    (("(Some(\"15e9bd058d1acabf445ccef7efca7bbdd8f813a9eef9c4898f7bef20b317627a\"), 3)"
        :> <<12, 14, 12, 6, 10, 3, 13, 8, 2, 6, 10, 10, 9, 8, 2, 8, 6, 1, 14, 8, 2, 7, 12, 11, 13, 6, 7, 10, 10, 8, 13, 7, 9, 2, 13, 6, 2, 0, 12, 6, 14, 1, 8, 9, 8, 4, 5, 11, 13, 4, 5, 7, 3, 11, 13, 10, 0, 4, 3, 0, 12, 9, 15, 8>>)
    @@
    (("(Some(\"15e9bd058d1acabf445ccef7efca7bbdd8f813a9eef9c4898f7bef20b317627a\"), 4)"
        :> <<9, 12, 4, 14, 14, 2, 13, 2, 12, 7, 8, 0, 1, 9, 9, 15, 1, 12, 14, 7, 7, 14, 1, 4, 11, 9, 7, 4, 14, 14, 15, 1, 11, 14, 14, 4, 10, 5, 7, 7, 7, 9, 1, 7, 8, 12, 0, 10, 11, 4, 15, 12, 1, 11, 2, 5, 12, 1, 3, 2, 10, 12, 0, 6>>)
    @@
    ("(Some(\"15e9bd058d1acabf445ccef7efca7bbdd8f813a9eef9c4898f7bef20b317627a\"), 5)"
        :> <<1, 14, 0, 2, 7, 3, 1, 13, 7, 11, 7, 6, 8, 12, 5, 15, 3, 6, 1, 14, 9, 9, 13, 5, 14, 10, 9, 12, 11, 5, 8, 14, 15, 9, 3, 2, 10, 0, 3, 12, 3, 15, 9, 8, 14, 6, 0, 7, 6, 5, 0, 5, 7, 5, 5, 12, 9, 5, 11, 13, 8, 14, 3, 2>>))))
    @@
    ((("(Some(\"15e9bd058d1acabf445ccef7efca7bbdd8f813a9eef9c4898f7bef20b317627a\"), 6)"
        :> <<0, 9, 6, 7, 5, 7, 1, 15, 1, 13, 15, 11, 6, 4, 1, 8, 7, 11, 11, 4, 6, 5, 9, 10, 12, 12, 10, 12, 11, 2, 8, 12, 7, 14, 8, 1, 5, 3, 4, 3, 2, 8, 10, 12, 1, 15, 14, 10, 1, 4, 6, 15, 15, 13, 7, 13, 6, 1, 9, 2, 10, 10, 3, 14>>)
    @@
    (("(Some(\"15e9bd058d1acabf445ccef7efca7bbdd8f813a9eef9c4898f7bef20b317627a\"), 7)"
        :> <<10, 7, 7, 12, 11, 15, 5, 4, 2, 9, 0, 7, 3, 0, 7, 7, 3, 3, 6, 14, 10, 8, 15, 11, 6, 10, 8, 5, 6, 7, 10, 8, 3, 2, 7, 12, 6, 2, 0, 14, 2, 8, 7, 12, 4, 7, 12, 12, 12, 3, 1, 10, 14, 4, 3, 0, 2, 2, 15, 3, 8, 1, 5, 12>>)
    @@
    ("(Some(\"17c36cb2b0488ed15261afa62c122c558a567d13d6f90b566c2f62ca7c6b5fa3\"), 0)"
        :> <<14, 8, 7, 15, 6, 10, 9, 5, 8, 3, 0, 13, 13, 5, 6, 12, 14, 3, 12, 0, 13, 9, 14, 7, 4, 2, 2, 13, 3, 13, 9, 0, 0, 13, 0, 6, 10, 0, 15, 0, 2, 4, 11, 14, 5, 8, 8, 3, 2, 11, 10, 8, 11, 11, 5, 7, 14, 9, 2, 1, 9, 6, 2, 1>>)))
    @@
    ((("(Some(\"17c36cb2b0488ed15261afa62c122c558a567d13d6f90b566c2f62ca7c6b5fa3\"), 2)"
        :> <<11, 15, 12, 15, 15, 8, 15, 0, 14, 14, 10, 13, 0, 11, 12, 9, 10, 9, 12, 13, 0, 11, 7, 8, 0, 11, 13, 15, 3, 13, 10, 9, 1, 0, 3, 15, 15, 14, 13, 0, 11, 15, 9, 4, 11, 12, 6, 4, 6, 3, 13, 0, 12, 3, 6, 6, 13, 14, 12, 2, 3, 7, 15, 13>>)
    @@
    ("(Some(\"17c36cb2b0488ed15261afa62c122c558a567d13d6f90b566c2f62ca7c6b5fa3\"), 3)"
        :> <<12, 6, 2, 1, 1, 3, 6, 13, 1, 4, 14, 1, 5, 13, 5, 13, 4, 5, 15, 4, 3, 13, 2, 10, 2, 1, 5, 2, 11, 13, 8, 15, 13, 14, 5, 6, 1, 7, 10, 12, 0, 11, 7, 0, 15, 3, 14, 6, 2, 0, 15, 11, 6, 5, 10, 7, 0, 12, 14, 1, 12, 3, 13, 11>>))
    @@
    (("(Some(\"17c36cb2b0488ed15261afa62c122c558a567d13d6f90b566c2f62ca7c6b5fa3\"), 4)"
        :> <<13, 13, 4, 9, 0, 14, 13, 13, 8, 6, 15, 4, 0, 11, 12, 7, 15, 12, 7, 12, 7, 1, 8, 8, 5, 7, 11, 5, 15, 9, 13, 14, 13, 8, 10, 12, 6, 15, 10, 0, 6, 0, 7, 12, 7, 6, 10, 7, 8, 4, 12, 7, 2, 14, 7, 13, 14, 4, 4, 6, 14, 1, 7, 14>>)
    @@
    ("(Some(\"17c36cb2b0488ed15261afa62c122c558a567d13d6f90b566c2f62ca7c6b5fa3\"), 5)"
        :> <<0, 13, 2, 5, 7, 2, 0, 5, 8, 14, 6, 12, 10, 10, 12, 1, 8, 7, 6, 6, 7, 5, 0, 4, 1, 11, 8, 11, 7, 13, 4, 4, 1, 15, 6, 8, 7, 5, 15, 15, 0, 0, 7, 10, 10, 4, 4, 6, 13, 15, 7, 15, 14, 9, 9, 4, 11, 3, 3, 1, 8, 15, 9, 12>>)))))
    @@
    (((("(Some(\"17c36cb2b0488ed15261afa62c122c558a567d13d6f90b566c2f62ca7c6b5fa3\"), 6)"
        :> <<2, 10, 0, 7, 10, 4, 9, 14, 12, 6, 2, 11, 14, 12, 13, 10, 4, 8, 6, 2, 5, 10, 8, 1, 5, 13, 7, 6, 9, 14, 1, 4, 0, 1, 7, 6, 2, 4, 8, 1, 1, 9, 1, 0, 11, 7, 13, 9, 3, 3, 1, 13, 9, 0, 11, 11, 13, 1, 6, 9, 14, 7, 6, 15>>)
    @@
    (("(Some(\"17c36cb2b0488ed15261afa62c122c558a567d13d6f90b566c2f62ca7c6b5fa3\"), 7)"
        :> <<4, 0, 6, 6, 2, 13, 7, 14, 12, 10, 8, 15, 5, 10, 12, 3, 5, 12, 4, 2, 11, 1, 14, 0, 11, 3, 12, 7, 13, 5, 1, 7, 1, 8, 7, 4, 12, 5, 10, 9, 15, 3, 13, 1, 1, 4, 1, 7, 14, 6, 6, 4, 14, 14, 6, 2, 1, 2, 8, 14, 3, 1, 3, 9>>)
    @@
    ("(Some(\"1d0eab3186d74cc8fc8710b0d2f28ba82371e4743833a40aaaed1fa3f811e4d8\"), 0)"
        :> <<5, 1, 0, 5, 7, 11, 6, 4, 8, 12, 2, 3, 8, 12, 8, 3, 5, 8, 0, 1, 7, 2, 11, 15, 11, 10, 3, 1, 7, 7, 6, 5, 2, 6, 6, 11, 13, 7, 15, 1, 8, 7, 14, 10, 13, 8, 5, 3, 1, 1, 12, 0, 8, 7, 15, 4, 13, 10, 2, 8, 0, 12, 10, 1>>)))
    @@
    (("(Some(\"1d0eab3186d74cc8fc8710b0d2f28ba82371e4743833a40aaaed1fa3f811e4d8\"), 0)7d3c95f98bd2b66af7c1d3a16cad13e01562539e02afc9695b86a5416092645f"
        :> <<9, 5, 4, 14, 1, 14, 1, 14, 10, 1, 4, 3, 13, 1, 1, 10, 5, 10, 5, 13, 11, 6, 7, 12, 12, 6, 3, 15, 3, 4, 0, 14, 9, 5, 1, 2, 4, 5, 15, 12, 14, 8, 11, 5, 9, 4, 1, 11, 9, 4, 2, 6, 12, 3, 11, 11, 1, 13, 1, 12, 5, 2, 12, 4>>)
    @@
    (("(Some(\"1d0eab3186d74cc8fc8710b0d2f28ba82371e4743833a40aaaed1fa3f811e4d8\"), 2)"
        :> <<12, 4, 13, 1, 4, 15, 13, 0, 4, 11, 11, 1, 8, 8, 15, 9, 9, 15, 10, 6, 12, 1, 15, 8, 8, 6, 15, 8, 0, 4, 14, 6, 2, 3, 7, 0, 7, 8, 3, 7, 10, 2, 4, 15, 2, 6, 15, 2, 9, 0, 11, 2, 10, 10, 1, 10, 2, 8, 13, 7, 1, 12, 9, 7>>)
    @@
    ("(Some(\"1d0eab3186d74cc8fc8710b0d2f28ba82371e4743833a40aaaed1fa3f811e4d8\"), 2)7d3c95f98bd2b66af7c1d3a16cad13e01562539e02afc9695b86a5416092645f"
        :> <<0, 4, 13, 13, 10, 7, 0, 3, 1, 1, 4, 12, 8, 9, 2, 0, 0, 0, 14, 8, 6, 10, 1, 3, 4, 1, 7, 3, 6, 13, 2, 7, 14, 8, 9, 15, 0, 4, 4, 0, 6, 2, 6, 7, 7, 9, 15, 4, 8, 3, 15, 9, 13, 1, 14, 4, 2, 13, 9, 11, 14, 15, 12, 4>>))))
    @@
    ((("(Some(\"1d0eab3186d74cc8fc8710b0d2f28ba82371e4743833a40aaaed1fa3f811e4d8\"), 3)"
        :> <<9, 14, 12, 11, 1, 9, 6, 5, 2, 11, 1, 15, 4, 2, 3, 2, 7, 11, 7, 5, 10, 7, 3, 6, 4, 13, 1, 8, 0, 4, 8, 13, 14, 2, 12, 6, 2, 2, 10, 15, 9, 4, 1, 14, 3, 13, 2, 11, 4, 12, 13, 8, 6, 11, 1, 1, 7, 2, 10, 9, 13, 6, 15, 8>>)
    @@
    (("(Some(\"1d0eab3186d74cc8fc8710b0d2f28ba82371e4743833a40aaaed1fa3f811e4d8\"), 3)7d3c95f98bd2b66af7c1d3a16cad13e01562539e02afc9695b86a5416092645f"
        :> <<10, 5, 14, 13, 0, 9, 15, 6, 3, 15, 7, 15, 5, 2, 6, 3, 6, 5, 0, 5, 0, 6, 7, 6, 13, 3, 6, 4, 5, 11, 9, 0, 0, 10, 6, 8, 10, 15, 11, 13, 8, 10, 3, 9, 13, 13, 4, 9, 10, 2, 12, 11, 7, 8, 14, 13, 4, 2, 4, 3, 2, 9, 2, 14>>)
    @@
    ("(Some(\"1d0eab3186d74cc8fc8710b0d2f28ba82371e4743833a40aaaed1fa3f811e4d8\"), 4)"
        :> <<13, 8, 14, 13, 8, 12, 13, 13, 5, 10, 9, 10, 7, 13, 7, 14, 2, 7, 15, 9, 12, 12, 12, 15, 4, 4, 9, 5, 13, 12, 10, 14, 13, 14, 11, 7, 1, 14, 13, 11, 1, 8, 2, 12, 9, 6, 12, 13, 6, 14, 4, 13, 9, 3, 10, 8, 13, 9, 6, 2, 13, 13, 6, 14>>)))
    @@
    ((("(Some(\"1d0eab3186d74cc8fc8710b0d2f28ba82371e4743833a40aaaed1fa3f811e4d8\"), 4)7d3c95f98bd2b66af7c1d3a16cad13e01562539e02afc9695b86a5416092645f"
        :> <<6, 0, 14, 12, 2, 0, 9, 5, 13, 2, 7, 6, 9, 12, 0, 10, 11, 15, 11, 13, 11, 7, 7, 5, 10, 7, 7, 14, 3, 10, 5, 6, 10, 0, 2, 11, 3, 8, 3, 1, 10, 3, 0, 7, 2, 15, 3, 12, 14, 2, 13, 11, 1, 10, 1, 0, 13, 11, 7, 8, 11, 6, 4, 3>>)
    @@
    ("(Some(\"1d0eab3186d74cc8fc8710b0d2f28ba82371e4743833a40aaaed1fa3f811e4d8\"), 5)"
        :> <<7, 7, 11, 2, 0, 3, 11, 2, 3, 3, 8, 11, 6, 1, 3, 15, 3, 5, 7, 15, 2, 14, 0, 2, 5, 2, 1, 7, 6, 12, 7, 10, 8, 2, 6, 15, 13, 5, 8, 13, 13, 5, 2, 0, 2, 1, 5, 10, 5, 12, 5, 13, 8, 11, 2, 11, 0, 9, 7, 4, 2, 9, 14, 8>>))
    @@
    (("(Some(\"1d0eab3186d74cc8fc8710b0d2f28ba82371e4743833a40aaaed1fa3f811e4d8\"), 5)7d3c95f98bd2b66af7c1d3a16cad13e01562539e02afc9695b86a5416092645f"
        :> <<13, 9, 14, 0, 8, 3, 13, 5, 1, 12, 13, 10, 6, 13, 2, 15, 3, 3, 14, 13, 12, 0, 4, 15, 13, 10, 6, 2, 12, 10, 11, 5, 4, 8, 11, 9, 2, 15, 1, 9, 7, 1, 8, 4, 3, 7, 3, 6, 4, 15, 0, 13, 13, 11, 5, 12, 5, 7, 14, 10, 0, 2, 0, 0>>)
    @@
    ("(Some(\"1d0eab3186d74cc8fc8710b0d2f28ba82371e4743833a40aaaed1fa3f811e4d8\"), 6)"
        :> <<1, 10, 9, 15, 3, 2, 7, 15, 0, 1, 3, 6, 10, 8, 7, 7, 4, 4, 8, 3, 11, 13, 12, 10, 4, 2, 4, 10, 0, 7, 4, 7, 14, 10, 7, 4, 11, 11, 0, 3, 9, 4, 6, 4, 12, 10, 2, 15, 11, 14, 2, 6, 1, 9, 12, 1, 2, 5, 12, 4, 15, 9, 5, 11>>))))))
    @@
    ((((("(Some(\"1d0eab3186d74cc8fc8710b0d2f28ba82371e4743833a40aaaed1fa3f811e4d8\"), 6)7d3c95f98bd2b66af7c1d3a16cad13e01562539e02afc9695b86a5416092645f"
        :> <<5, 2, 0, 9, 14, 14, 4, 5, 1, 1, 14, 6, 13, 4, 3, 15, 0, 3, 9, 8, 6, 6, 7, 6, 9, 2, 13, 9, 10, 5, 10, 15, 12, 14, 2, 12, 3, 12, 1, 7, 7, 5, 3, 8, 2, 7, 3, 15, 12, 7, 0, 14, 6, 4, 4, 14, 10, 15, 8, 10, 1, 3, 0, 15>>)
    @@
    (("(Some(\"1d0eab3186d74cc8fc8710b0d2f28ba82371e4743833a40aaaed1fa3f811e4d8\"), 7)"
        :> <<2, 8, 12, 5, 13, 6, 13, 5, 12, 4, 8, 1, 9, 10, 7, 7, 11, 2, 13, 11, 4, 10, 15, 15, 12, 3, 13, 11, 10, 11, 7, 0, 14, 9, 13, 13, 5, 9, 13, 9, 11, 2, 4, 9, 8, 14, 4, 13, 9, 4, 13, 8, 5, 12, 10, 10, 7, 8, 4, 10, 13, 9, 12, 5>>)
    @@
    ("(Some(\"1d0eab3186d74cc8fc8710b0d2f28ba82371e4743833a40aaaed1fa3f811e4d8\"), 7)7d3c95f98bd2b66af7c1d3a16cad13e01562539e02afc9695b86a5416092645f"
        :> <<5, 0, 0, 15, 13, 13, 14, 10, 11, 15, 14, 12, 14, 13, 9, 2, 5, 8, 12, 13, 14, 14, 9, 3, 6, 5, 6, 7, 0, 3, 2, 13, 0, 7, 8, 8, 13, 14, 0, 6, 1, 5, 13, 2, 12, 8, 6, 3, 0, 6, 3, 7, 0, 12, 2, 13, 6, 15, 14, 15, 2, 11, 4, 11>>)))
    @@
    (("(Some(\"1d4d2a91b562f2ffca76142022cb924ab70a76a5c5e6cb2eb99eeade93d69153\"), 0)"
        :> <<8, 4, 15, 12, 10, 4, 15, 7, 12, 3, 7, 12, 13, 1, 8, 11, 15, 9, 11, 7, 2, 10, 6, 9, 1, 10, 12, 9, 6, 4, 11, 1, 0, 2, 4, 12, 2, 2, 6, 6, 8, 3, 10, 14, 12, 13, 11, 5, 10, 0, 6, 6, 13, 9, 0, 9, 4, 1, 12, 2, 8, 9, 0, 12>>)
    @@
    (("(Some(\"1d4d2a91b562f2ffca76142022cb924ab70a76a5c5e6cb2eb99eeade93d69153\"), 0)7d3c95f98bd2b66af7c1d3a16cad13e01562539e02afc9695b86a5416092645f"
        :> <<10, 2, 13, 8, 8, 11, 8, 9, 8, 13, 5, 4, 14, 11, 1, 12, 3, 13, 10, 2, 12, 0, 7, 14, 0, 0, 0, 8, 3, 13, 8, 9, 6, 5, 6, 10, 6, 3, 0, 4, 15, 15, 1, 7, 0, 1, 0, 14, 4, 9, 9, 11, 7, 5, 3, 0, 2, 7, 6, 2, 10, 15, 8, 3>>)
    @@
    ("(Some(\"1d4d2a91b562f2ffca76142022cb924ab70a76a5c5e6cb2eb99eeade93d69153\"), 2)"
        :> <<0, 15, 3, 0, 13, 8, 12, 3, 2, 7, 11, 12, 12, 4, 10, 0, 9, 2, 11, 15, 5, 2, 15, 15, 4, 12, 12, 4, 9, 7, 12, 1, 9, 8, 15, 10, 5, 13, 11, 8, 4, 8, 0, 2, 7, 14, 7, 6, 9, 6, 5, 14, 2, 14, 4, 9, 7, 7, 8, 3, 8, 13, 7, 3>>))))
    @@
    ((("(Some(\"1d4d2a91b562f2ffca76142022cb924ab70a76a5c5e6cb2eb99eeade93d69153\"), 2)7d3c95f98bd2b66af7c1d3a16cad13e01562539e02afc9695b86a5416092645f"
        :> <<11, 6, 4, 15, 5, 11, 8, 12, 0, 2, 1, 4, 15, 14, 12, 12, 4, 11, 9, 0, 12, 7, 13, 13, 6, 7, 0, 12, 4, 6, 14, 15, 0, 8, 9, 5, 11, 13, 0, 3, 9, 5, 10, 6, 4, 15, 1, 10, 1, 15, 11, 5, 1, 8, 4, 2, 4, 14, 2, 1, 9, 8, 2, 7>>)
    @@
    (("(Some(\"1d4d2a91b562f2ffca76142022cb924ab70a76a5c5e6cb2eb99eeade93d69153\"), 3)"
        :> <<5, 13, 0, 15, 2, 12, 15, 3, 2, 10, 3, 12, 15, 13, 12, 6, 13, 10, 11, 12, 1, 10, 12, 15, 14, 9, 10, 8, 11, 9, 6, 2, 11, 2, 0, 5, 8, 13, 12, 12, 10, 1, 15, 5, 11, 12, 14, 7, 4, 6, 8, 8, 1, 14, 4, 2, 1, 0, 12, 13, 12, 4, 8, 8>>)
    @@
    ("(Some(\"1d4d2a91b562f2ffca76142022cb924ab70a76a5c5e6cb2eb99eeade93d69153\"), 3)7d3c95f98bd2b66af7c1d3a16cad13e01562539e02afc9695b86a5416092645f"
        :> <<3, 8, 3, 14, 13, 2, 10, 8, 9, 1, 10, 0, 7, 12, 7, 12, 3, 11, 8, 14, 2, 2, 5, 7, 4, 3, 6, 6, 14, 7, 13, 8, 15, 7, 10, 5, 7, 9, 7, 7, 0, 11, 14, 0, 12, 14, 13, 14, 6, 6, 10, 11, 11, 2, 10, 13, 15, 6, 15, 14, 11, 10, 14, 2>>)))
    @@
    ((("(Some(\"1d4d2a91b562f2ffca76142022cb924ab70a76a5c5e6cb2eb99eeade93d69153\"), 4)"
        :> <<12, 4, 2, 11, 4, 0, 3, 2, 14, 10, 5, 2, 0, 1, 1, 4, 3, 13, 4, 10, 0, 12, 9, 2, 7, 10, 4, 12, 9, 15, 6, 9, 13, 8, 9, 3, 14, 6, 12, 1, 12, 7, 10, 8, 0, 7, 1, 4, 11, 2, 11, 11, 5, 3, 10, 15, 12, 15, 11, 4, 12, 1, 10, 12>>)
    @@
    ("(Some(\"1d4d2a91b562f2ffca76142022cb924ab70a76a5c5e6cb2eb99eeade93d69153\"), 4)7d3c95f98bd2b66af7c1d3a16cad13e01562539e02afc9695b86a5416092645f"
        :> <<5, 15, 5, 9, 4, 0, 1, 8, 15, 3, 2, 12, 1, 11, 2, 12, 10, 9, 14, 7, 3, 11, 8, 1, 2, 3, 2, 1, 5, 5, 8, 6, 7, 6, 6, 4, 5, 12, 10, 7, 10, 3, 9, 11, 8, 13, 6, 10, 1, 8, 8, 7, 6, 7, 3, 1, 14, 12, 11, 12, 12, 15, 1, 4>>))
    @@
    (("(Some(\"1d4d2a91b562f2ffca76142022cb924ab70a76a5c5e6cb2eb99eeade93d69153\"), 5)"
        :> <<3, 14, 5, 0, 5, 3, 10, 5, 4, 9, 1, 2, 10, 7, 1, 6, 8, 8, 2, 12, 3, 10, 9, 8, 15, 4, 8, 13, 15, 14, 14, 3, 2, 4, 9, 10, 7, 7, 9, 2, 15, 12, 4, 14, 6, 11, 10, 2, 10, 7, 0, 2, 5, 4, 15, 6, 8, 13, 1, 6, 4, 6, 2, 12>>)
    @@
    ("(Some(\"1d4d2a91b562f2ffca76142022cb924ab70a76a5c5e6cb2eb99eeade93d69153\"), 5)7d3c95f98bd2b66af7c1d3a16cad13e01562539e02afc9695b86a5416092645f"
        :> <<15, 13, 7, 4, 4, 5, 3, 3, 2, 11, 0, 12, 2, 10, 10, 8, 7, 5, 12, 2, 7, 14, 8, 12, 3, 13, 8, 9, 0, 6, 3, 14, 8, 3, 14, 3, 0, 3, 1, 10, 4, 2, 13, 5, 13, 4, 8, 6, 3, 12, 2, 1, 7, 13, 0, 4, 13, 8, 11, 10, 5, 4, 12, 13>>)))))
    @@
    (((("(Some(\"1d4d2a91b562f2ffca76142022cb924ab70a76a5c5e6cb2eb99eeade93d69153\"), 6)"
        :> <<7, 15, 12, 0, 9, 5, 3, 4, 14, 13, 9, 1, 13, 0, 13, 12, 10, 6, 14, 4, 3, 13, 0, 1, 10, 5, 14, 0, 12, 6, 2, 4, 4, 0, 11, 5, 6, 12, 10, 5, 11, 10, 15, 12, 6, 14, 9, 3, 3, 12, 5, 14, 12, 2, 7, 14, 7, 4, 1, 15, 10, 0, 10, 14>>)
    @@
    (("(Some(\"1d4d2a91b562f2ffca76142022cb924ab70a76a5c5e6cb2eb99eeade93d69153\"), 6)7d3c95f98bd2b66af7c1d3a16cad13e01562539e02afc9695b86a5416092645f"
        :> <<0, 9, 15, 10, 3, 0, 8, 6, 2, 11, 12, 5, 4, 2, 14, 11, 13, 1, 0, 6, 14, 7, 1, 2, 7, 13, 10, 3, 14, 10, 12, 0, 2, 12, 12, 10, 3, 4, 6, 3, 9, 14, 4, 15, 3, 12, 0, 1, 11, 8, 2, 10, 6, 12, 15, 8, 12, 5, 8, 6, 14, 10, 2, 4>>)
    @@
    ("(Some(\"1d4d2a91b562f2ffca76142022cb924ab70a76a5c5e6cb2eb99eeade93d69153\"), 7)"
        :> <<12, 3, 6, 4, 13, 6, 10, 15, 15, 9, 13, 7, 11, 12, 9, 15, 13, 8, 10, 4, 3, 10, 4, 14, 3, 5, 5, 6, 1, 4, 5, 9, 3, 2, 1, 4, 11, 6, 9, 9, 8, 10, 13, 11, 14, 11, 0, 12, 1, 2, 9, 7, 9, 6, 9, 0, 15, 15, 9, 7, 3, 2, 7, 11>>)))
    @@
    ((("(Some(\"1d4d2a91b562f2ffca76142022cb924ab70a76a5c5e6cb2eb99eeade93d69153\"), 7)7d3c95f98bd2b66af7c1d3a16cad13e01562539e02afc9695b86a5416092645f"
        :> <<15, 0, 8, 4, 15, 1, 10, 10, 14, 1, 9, 0, 5, 9, 12, 6, 13, 1, 12, 6, 1, 1, 15, 13, 9, 5, 5, 15, 11, 1, 14, 0, 0, 13, 8, 3, 3, 0, 6, 13, 12, 6, 10, 10, 3, 5, 7, 0, 10, 3, 5, 3, 4, 12, 13, 7, 14, 6, 13, 6, 12, 1, 14, 5>>)
    @@
    ("(Some(\"22d988dfbd2749865d7772af4d85581a22005a7d9a803e900481e5d03216fbd1\"), 0)"
        :> <<8, 8, 9, 7, 13, 10, 1, 1, 5, 4, 14, 9, 6, 8, 2, 4, 9, 8, 5, 12, 4, 12, 9, 14, 0, 12, 9, 7, 15, 9, 7, 0, 7, 10, 5, 13, 13, 5, 0, 8, 1, 9, 4, 6, 12, 15, 15, 8, 9, 11, 9, 13, 11, 5, 14, 14, 13, 5, 13, 7, 1, 3, 5, 10>>))
    @@
    (("(Some(\"22d988dfbd2749865d7772af4d85581a22005a7d9a803e900481e5d03216fbd1\"), 2)"
        :> <<4, 12, 11, 0, 8, 12, 2, 15, 15, 15, 11, 0, 15, 5, 8, 0, 8, 11, 8, 0, 11, 0, 10, 9, 1, 6, 14, 5, 4, 3, 12, 0, 10, 15, 8, 11, 3, 14, 8, 13, 12, 14, 9, 13, 6, 5, 8, 5, 1, 0, 11, 10, 1, 6, 11, 2, 13, 0, 5, 1, 6, 3, 3, 6>>)
    @@
    ("(Some(\"22d988dfbd2749865d7772af4d85581a22005a7d9a803e900481e5d03216fbd1\"), 3)"
        :> <<9, 13, 4, 4, 0, 9, 11, 11, 12, 12, 7, 9, 5, 14, 7, 9, 12, 4, 15, 3, 6, 0, 9, 9, 7, 11, 5, 11, 15, 14, 12, 15, 15, 0, 4, 10, 11, 11, 15, 13, 8, 2, 6, 13, 0, 4, 7, 10, 1, 0, 9, 13, 13, 3, 5, 10, 14, 6, 1, 11, 15, 12, 9, 3>>))))
    @@
    ((("(Some(\"22d988dfbd2749865d7772af4d85581a22005a7d9a803e900481e5d03216fbd1\"), 4)"
        :> <<2, 8, 10, 8, 1, 4, 14, 8, 1, 9, 3, 4, 9, 0, 13, 13, 15, 10, 10, 1, 15, 6, 1, 8, 4, 9, 11, 12, 8, 3, 12, 0, 8, 4, 8, 2, 2, 12, 7, 12, 3, 1, 12, 13, 0, 2, 3, 2, 1, 15, 0, 2, 3, 2, 2, 1, 6, 13, 2, 4, 13, 12, 11, 11>>)
    @@
    (("(Some(\"22d988dfbd2749865d7772af4d85581a22005a7d9a803e900481e5d03216fbd1\"), 5)"
        :> <<0, 5, 12, 11, 5, 11, 7, 3, 9, 14, 13, 7, 6, 2, 4, 13, 7, 6, 3, 0, 10, 3, 11, 0, 9, 1, 5, 14, 2, 2, 13, 5, 10, 5, 12, 8, 1, 14, 15, 1, 11, 1, 6, 6, 11, 5, 13, 9, 9, 6, 14, 5, 3, 2, 14, 8, 11, 13, 4, 3, 4, 15, 6, 10>>)
    @@
    ("(Some(\"22d988dfbd2749865d7772af4d85581a22005a7d9a803e900481e5d03216fbd1\"), 6)"
        :> <<3, 3, 12, 5, 13, 7, 9, 15, 14, 14, 4, 13, 1, 9, 9, 2, 3, 13, 2, 10, 2, 11, 9, 15, 2, 2, 2, 1, 12, 13, 2, 4, 1, 11, 2, 9, 11, 13, 15, 12, 7, 9, 5, 0, 2, 0, 13, 1, 6, 2, 3, 0, 3, 3, 14, 7, 9, 2, 9, 6, 1, 9, 3, 12>>)))
    @@
    ((("(Some(\"22d988dfbd2749865d7772af4d85581a22005a7d9a803e900481e5d03216fbd1\"), 7)"
        :> <<11, 6, 9, 3, 3, 6, 14, 7, 1, 6, 12, 0, 4, 0, 3, 12, 3, 5, 12, 13, 5, 15, 10, 9, 4, 4, 0, 6, 8, 8, 14, 5, 2, 15, 9, 4, 3, 2, 14, 10, 1, 6, 4, 0, 4, 11, 13, 12, 7, 1, 14, 13, 5, 2, 11, 13, 0, 15, 5, 9, 4, 9, 13, 1>>)
    @@
    ("(Some(\"24bbf9b5d92f8f06a86fd99aefab83afdcea491ac22588616f5e30f730c0bc1a\"), 0)"
        :> <<9, 13, 14, 14, 11, 12, 2, 4, 6, 7, 2, 8, 6, 9, 1, 3, 1, 7, 6, 1, 11, 3, 7, 10, 9, 5, 9, 14, 15, 8, 11, 6, 14, 15, 2, 3, 3, 15, 4, 1, 1, 4, 12, 1, 8, 8, 14, 6, 6, 12, 9, 5, 6, 11, 10, 3, 3, 8, 6, 3, 5, 5, 0, 12>>))
    @@
    (("(Some(\"24bbf9b5d92f8f06a86fd99aefab83afdcea491ac22588616f5e30f730c0bc1a\"), 2)"
        :> <<15, 1, 15, 4, 3, 3, 8, 10, 3, 7, 5, 10, 1, 14, 9, 0, 10, 2, 1, 7, 2, 9, 2, 15, 11, 8, 9, 8, 6, 6, 12, 5, 2, 4, 14, 0, 9, 10, 10, 7, 2, 5, 0, 11, 7, 4, 10, 13, 14, 3, 0, 14, 5, 12, 8, 4, 2, 10, 3, 14, 6, 0, 6, 1>>)
    @@
    ("(Some(\"24bbf9b5d92f8f06a86fd99aefab83afdcea491ac22588616f5e30f730c0bc1a\"), 3)"
        :> <<15, 0, 5, 1, 3, 15, 0, 15, 7, 10, 7, 1, 1, 10, 6, 6, 5, 14, 13, 4, 6, 9, 11, 15, 6, 9, 7, 7, 12, 0, 1, 7, 8, 7, 9, 9, 3, 11, 10, 8, 11, 3, 14, 8, 10, 6, 0, 12, 12, 7, 11, 15, 6, 7, 4, 1, 11, 8, 2, 4, 11, 0, 14, 5>>))))))))
    @@
    ((((((("(Some(\"24bbf9b5d92f8f06a86fd99aefab83afdcea491ac22588616f5e30f730c0bc1a\"), 4)"
        :> <<1, 7, 3, 14, 15, 2, 3, 13, 3, 1, 9, 12, 8, 15, 1, 0, 3, 14, 12, 4, 11, 12, 10, 5, 2, 7, 13, 6, 0, 6, 8, 7, 15, 11, 13, 0, 6, 15, 4, 10, 14, 8, 1, 8, 2, 8, 4, 6, 15, 5, 13, 13, 1, 2, 4, 0, 3, 12, 11, 12, 9, 10, 13, 1>>)
    @@
    (("(Some(\"24bbf9b5d92f8f06a86fd99aefab83afdcea491ac22588616f5e30f730c0bc1a\"), 5)"
        :> <<7, 0, 1, 3, 0, 9, 2, 4, 12, 4, 15, 13, 3, 12, 10, 15, 0, 13, 14, 2, 11, 6, 0, 14, 10, 5, 15, 10, 15, 10, 2, 14, 10, 1, 6, 9, 5, 13, 3, 13, 0, 13, 11, 1, 15, 7, 8, 1, 3, 3, 8, 3, 0, 7, 13, 12, 8, 6, 10, 0, 13, 2, 10, 9>>)
    @@
    ("(Some(\"24bbf9b5d92f8f06a86fd99aefab83afdcea491ac22588616f5e30f730c0bc1a\"), 6)"
        :> <<15, 13, 9, 11, 8, 6, 5, 3, 13, 8, 3, 15, 2, 5, 0, 2, 12, 4, 7, 0, 1, 7, 13, 11, 8, 10, 11, 8, 0, 6, 10, 8, 5, 2, 0, 9, 5, 0, 8, 11, 1, 2, 2, 13, 1, 0, 3, 1, 5, 1, 11, 5, 9, 5, 14, 5, 13, 8, 5, 15, 13, 6, 0, 8>>)))
    @@
    (("(Some(\"24bbf9b5d92f8f06a86fd99aefab83afdcea491ac22588616f5e30f730c0bc1a\"), 7)"
        :> <<14, 9, 14, 9, 4, 12, 9, 12, 2, 8, 6, 15, 9, 15, 0, 3, 0, 7, 9, 5, 9, 10, 6, 12, 9, 1, 5, 1, 1, 12, 14, 14, 4, 6, 11, 6, 1, 2, 7, 11, 12, 11, 6, 12, 5, 3, 0, 11, 7, 15, 12, 6, 6, 6, 10, 14, 10, 4, 6, 11, 0, 10, 6, 15>>)
    @@
    (("(Some(\"284d6d48c6f202d13aa859d6b43319f4db5bb21a5dc30defac000300691f2032\"), 0)"
        :> <<9, 8, 4, 5, 12, 8, 7, 15, 12, 12, 3, 8, 8, 11, 8, 11, 5, 9, 2, 9, 6, 0, 7, 14, 8, 7, 7, 0, 2, 8, 3, 7, 14, 3, 5, 2, 11, 3, 11, 14, 9, 13, 9, 10, 15, 7, 3, 1, 12, 8, 3, 14, 9, 1, 2, 4, 15, 0, 0, 7, 15, 4, 15, 5>>)
    @@
    ("(Some(\"284d6d48c6f202d13aa859d6b43319f4db5bb21a5dc30defac000300691f2032\"), 2)"
        :> <<5, 7, 0, 5, 3, 3, 14, 0, 8, 11, 3, 7, 1, 6, 11, 9, 12, 1, 8, 14, 12, 3, 11, 8, 13, 3, 5, 3, 5, 12, 0, 4, 11, 7, 9, 13, 15, 2, 13, 10, 10, 4, 10, 10, 10, 13, 8, 1, 13, 7, 15, 2, 12, 7, 3, 2, 6, 15, 4, 6, 10, 14, 10, 10>>))))
    @@
    ((("(Some(\"284d6d48c6f202d13aa859d6b43319f4db5bb21a5dc30defac000300691f2032\"), 3)"
        :> <<5, 0, 2, 0, 9, 15, 11, 11, 8, 5, 12, 3, 7, 15, 13, 3, 11, 1, 7, 2, 0, 7, 11, 14, 6, 13, 1, 3, 2, 2, 2, 11, 0, 1, 10, 7, 5, 9, 6, 10, 13, 9, 6, 12, 4, 15, 3, 7, 5, 7, 4, 4, 13, 1, 14, 8, 14, 4, 10, 8, 4, 13, 15, 2>>)
    @@
    (("(Some(\"284d6d48c6f202d13aa859d6b43319f4db5bb21a5dc30defac000300691f2032\"), 4)"
        :> <<2, 1, 10, 0, 14, 1, 0, 0, 4, 7, 15, 6, 2, 15, 4, 15, 4, 15, 11, 5, 1, 13, 12, 2, 12, 13, 15, 6, 6, 13, 13, 7, 14, 3, 0, 14, 0, 7, 1, 4, 13, 1, 14, 6, 3, 8, 15, 5, 2, 7, 2, 7, 8, 9, 7, 4, 9, 10, 10, 9, 6, 12, 6, 5>>)
    @@
    ("(Some(\"284d6d48c6f202d13aa859d6b43319f4db5bb21a5dc30defac000300691f2032\"), 5)"
        :> <<8, 7, 3, 1, 7, 3, 0, 5, 15, 12, 9, 4, 7, 7, 11, 9, 12, 4, 14, 0, 0, 6, 7, 5, 1, 4, 15, 1, 5, 7, 9, 15, 7, 0, 10, 0, 5, 1, 2, 2, 4, 2, 14, 15, 4, 6, 15, 1, 4, 15, 8, 2, 7, 10, 10, 2, 2, 11, 2, 8, 9, 15, 2, 13>>)))
    @@
    ((("(Some(\"284d6d48c6f202d13aa859d6b43319f4db5bb21a5dc30defac000300691f2032\"), 6)"
        :> <<5, 3, 10, 5, 7, 8, 13, 3, 10, 0, 12, 3, 11, 14, 15, 15, 12, 15, 10, 10, 8, 14, 3, 12, 13, 10, 11, 14, 5, 3, 1, 11, 13, 14, 8, 7, 3, 11, 4, 10, 12, 4, 13, 3, 11, 13, 9, 13, 3, 13, 6, 12, 6, 9, 15, 9, 8, 7, 14, 8, 1, 13, 4, 15>>)
    @@
    ("(Some(\"284d6d48c6f202d13aa859d6b43319f4db5bb21a5dc30defac000300691f2032\"), 7)"
        :> <<7, 6, 11, 3, 5, 8, 4, 3, 14, 1, 6, 0, 14, 2, 11, 4, 5, 9, 7, 11, 11, 3, 11, 15, 6, 14, 8, 9, 9, 14, 9, 9, 4, 7, 2, 13, 6, 8, 14, 15, 10, 5, 12, 3, 3, 13, 9, 5, 11, 15, 9, 2, 14, 0, 13, 4, 7, 4, 8, 3, 14, 12, 6, 4>>))
    @@
    (("(Some(\"30308ff326bd0b2b8fc88dc26debbb717cb24f954ee745e2c2b4687beb6b00d8\"), 0)"
        :> <<9, 3, 10, 5, 0, 1, 2, 2, 13, 12, 13, 9, 15, 15, 4, 8, 14, 1, 8, 12, 3, 12, 14, 14, 13, 0, 13, 9, 11, 9, 9, 6, 2, 12, 8, 1, 6, 1, 3, 13, 11, 8, 6, 10, 2, 2, 10, 15, 10, 6, 9, 12, 15, 6, 1, 4, 1, 12, 0, 4, 2, 2, 6, 15>>)
    @@
    ("(Some(\"30308ff326bd0b2b8fc88dc26debbb717cb24f954ee745e2c2b4687beb6b00d8\"), 0)7d3c95f98bd2b66af7c1d3a16cad13e01562539e02afc9695b86a5416092645f"
        :> <<12, 3, 12, 9, 1, 5, 3, 3, 6, 12, 8, 12, 4, 6, 13, 15, 14, 15, 7, 7, 9, 1, 4, 11, 5, 15, 2, 8, 5, 4, 10, 1, 3, 8, 15, 12, 15, 4, 12, 13, 7, 13, 12, 1, 10, 14, 3, 6, 7, 9, 0, 7, 14, 5, 10, 1, 4, 7, 14, 4, 8, 1, 8, 5>>)))))
    @@
    (((("(Some(\"30308ff326bd0b2b8fc88dc26debbb717cb24f954ee745e2c2b4687beb6b00d8\"), 2)"
        :> <<13, 5, 6, 1, 0, 8, 6, 2, 0, 12, 11, 7, 2, 10, 9, 1, 11, 5, 10, 11, 9, 1, 3, 11, 2, 7, 2, 12, 7, 12, 1, 3, 9, 1, 11, 9, 0, 1, 0, 9, 10, 12, 13, 9, 8, 0, 3, 7, 4, 1, 7, 12, 7, 11, 1, 2, 3, 0, 9, 10, 12, 15, 7, 9>>)
    @@
    (("(Some(\"30308ff326bd0b2b8fc88dc26debbb717cb24f954ee745e2c2b4687beb6b00d8\"), 2)7d3c95f98bd2b66af7c1d3a16cad13e01562539e02afc9695b86a5416092645f"
        :> <<15, 13, 2, 0, 3, 2, 2, 8, 2, 8, 10, 9, 15, 3, 11, 12, 3, 6, 7, 4, 4, 9, 1, 11, 2, 9, 4, 2, 9, 11, 13, 14, 8, 11, 4, 6, 9, 8, 12, 14, 8, 3, 14, 7, 8, 3, 8, 11, 10, 2, 0, 14, 0, 5, 13, 13, 13, 13, 14, 7, 10, 11, 10, 6>>)
    @@
    ("(Some(\"30308ff326bd0b2b8fc88dc26debbb717cb24f954ee745e2c2b4687beb6b00d8\"), 3)"
        :> <<7, 4, 11, 8, 1, 8, 2, 11, 9, 5, 9, 12, 3, 0, 14, 6, 6, 3, 13, 11, 11, 15, 3, 9, 2, 6, 13, 15, 12, 13, 5, 9, 12, 2, 9, 10, 6, 10, 0, 11, 4, 7, 15, 13, 12, 13, 15, 9, 7, 14, 12, 6, 7, 3, 0, 3, 0, 10, 5, 12, 4, 2, 15, 9>>)))
    @@
    (("(Some(\"30308ff326bd0b2b8fc88dc26debbb717cb24f954ee745e2c2b4687beb6b00d8\"), 3)7d3c95f98bd2b66af7c1d3a16cad13e01562539e02afc9695b86a5416092645f"
        :> <<4, 1, 7, 0, 12, 6, 7, 0, 8, 13, 11, 7, 0, 2, 6, 12, 4, 6, 14, 9, 10, 6, 11, 11, 15, 10, 10, 6, 11, 7, 2, 12, 13, 15, 13, 12, 0, 7, 13, 2, 11, 13, 4, 10, 9, 7, 11, 0, 2, 9, 5, 13, 12, 13, 9, 0, 6, 4, 4, 11, 12, 13, 7, 11>>)
    @@
    (("(Some(\"30308ff326bd0b2b8fc88dc26debbb717cb24f954ee745e2c2b4687beb6b00d8\"), 4)"
        :> <<13, 12, 13, 1, 13, 12, 10, 10, 1, 7, 4, 0, 11, 3, 2, 0, 7, 12, 5, 4, 10, 1, 3, 14, 2, 14, 8, 10, 3, 14, 13, 11, 1, 0, 7, 12, 13, 13, 5, 2, 12, 6, 9, 5, 11, 9, 14, 0, 14, 4, 15, 5, 5, 3, 10, 9, 4, 0, 2, 12, 10, 11, 4, 1>>)
    @@
    ("(Some(\"30308ff326bd0b2b8fc88dc26debbb717cb24f954ee745e2c2b4687beb6b00d8\"), 4)7d3c95f98bd2b66af7c1d3a16cad13e01562539e02afc9695b86a5416092645f"
        :> <<15, 3, 3, 12, 8, 9, 2, 15, 5, 10, 14, 4, 15, 9, 4, 10, 9, 11, 10, 10, 4, 3, 3, 11, 12, 3, 2, 1, 6, 4, 12, 0, 9, 11, 6, 4, 2, 10, 7, 8, 8, 11, 3, 10, 5, 13, 10, 7, 9, 7, 7, 14, 2, 9, 14, 10, 13, 4, 6, 4, 7, 10, 14, 15>>))))
    @@
    ((("(Some(\"30308ff326bd0b2b8fc88dc26debbb717cb24f954ee745e2c2b4687beb6b00d8\"), 5)"
        :> <<6, 15, 5, 6, 5, 9, 15, 12, 11, 15, 15, 2, 5, 13, 12, 6, 9, 7, 2, 8, 1, 9, 15, 4, 6, 3, 9, 4, 2, 1, 15, 6, 12, 8, 14, 6, 3, 3, 2, 3, 14, 4, 0, 5, 9, 11, 11, 0, 0, 13, 10, 0, 15, 0, 4, 13, 1, 8, 14, 10, 11, 15, 2, 8>>)
    @@
    (("(Some(\"30308ff326bd0b2b8fc88dc26debbb717cb24f954ee745e2c2b4687beb6b00d8\"), 5)7d3c95f98bd2b66af7c1d3a16cad13e01562539e02afc9695b86a5416092645f"
        :> <<12, 1, 14, 12, 4, 2, 4, 11, 10, 8, 8, 7, 4, 11, 14, 14, 2, 5, 6, 14, 8, 9, 13, 3, 4, 8, 9, 15, 0, 13, 8, 14, 0, 2, 3, 5, 14, 11, 4, 3, 11, 9, 4, 9, 9, 1, 6, 3, 6, 0, 11, 1, 11, 10, 5, 1, 9, 8, 3, 11, 3, 15, 9, 12>>)
    @@
    ("(Some(\"30308ff326bd0b2b8fc88dc26debbb717cb24f954ee745e2c2b4687beb6b00d8\"), 6)"
        :> <<10, 2, 4, 12, 0, 14, 13, 10, 3, 8, 1, 10, 13, 11, 7, 1, 4, 11, 10, 3, 10, 14, 4, 0, 9, 8, 8, 9, 1, 7, 3, 13, 4, 8, 5, 4, 11, 4, 7, 1, 12, 3, 14, 8, 15, 4, 6, 13, 4, 15, 14, 7, 15, 8, 3, 15, 3, 9, 6, 15, 15, 8, 1, 14>>)))
    @@
    ((("(Some(\"30308ff326bd0b2b8fc88dc26debbb717cb24f954ee745e2c2b4687beb6b00d8\"), 6)7d3c95f98bd2b66af7c1d3a16cad13e01562539e02afc9695b86a5416092645f"
        :> <<8, 5, 1, 2, 15, 11, 2, 1, 9, 3, 13, 9, 6, 5, 15, 15, 5, 8, 15, 14, 6, 6, 0, 0, 3, 2, 7, 5, 10, 13, 6, 13, 2, 5, 13, 6, 2, 2, 0, 2, 11, 11, 10, 8, 15, 3, 4, 12, 10, 6, 1, 15, 4, 13, 9, 15, 4, 12, 11, 6, 11, 13, 12, 6>>)
    @@
    ("(Some(\"30308ff326bd0b2b8fc88dc26debbb717cb24f954ee745e2c2b4687beb6b00d8\"), 7)"
        :> <<6, 8, 5, 6, 2, 7, 7, 6, 3, 12, 4, 2, 9, 6, 10, 11, 5, 1, 1, 4, 2, 8, 4, 2, 7, 14, 2, 8, 2, 12, 4, 9, 8, 3, 3, 14, 13, 1, 7, 7, 14, 15, 7, 14, 10, 4, 1, 2, 15, 9, 3, 13, 2, 2, 10, 4, 7, 3, 5, 11, 6, 14, 0, 15>>))
    @@
    (("(Some(\"30308ff326bd0b2b8fc88dc26debbb717cb24f954ee745e2c2b4687beb6b00d8\"), 7)7d3c95f98bd2b66af7c1d3a16cad13e01562539e02afc9695b86a5416092645f"
        :> <<4, 12, 10, 0, 7, 4, 2, 2, 6, 12, 11, 11, 7, 3, 6, 15, 2, 6, 4, 1, 15, 5, 0, 2, 2, 13, 6, 1, 10, 9, 1, 10, 4, 9, 0, 6, 1, 15, 7, 12, 15, 7, 4, 15, 10, 11, 13, 4, 13, 11, 1, 0, 8, 15, 6, 2, 2, 13, 11, 8, 1, 5, 5, 13>>)
    @@
    ("(Some(\"32fab7d16edb4cee5ea99d3540146717acbaf1e9ca01a05f10873c3863986873\"), 0)"
        :> <<6, 10, 0, 7, 2, 0, 11, 0, 11, 6, 14, 13, 2, 3, 10, 13, 6, 13, 6, 6, 6, 10, 1, 3, 2, 1, 0, 6, 1, 14, 8, 14, 13, 2, 8, 7, 2, 2, 2, 6, 3, 8, 10, 5, 4, 8, 2, 2, 6, 1, 3, 7, 1, 9, 11, 11, 4, 4, 5, 1, 0, 14, 4, 12>>))))))
    @@
    ((((("(Some(\"32fab7d16edb4cee5ea99d3540146717acbaf1e9ca01a05f10873c3863986873\"), 2)"
        :> <<6, 15, 15, 9, 10, 6, 6, 13, 9, 12, 14, 10, 4, 11, 0, 7, 15, 9, 2, 2, 5, 13, 4, 12, 1, 4, 1, 1, 13, 9, 7, 9, 15, 10, 12, 8, 0, 4, 3, 4, 5, 0, 12, 7, 15, 3, 13, 6, 5, 14, 13, 0, 1, 6, 5, 4, 9, 12, 8, 8, 0, 9, 8, 11>>)
    @@
    (("(Some(\"32fab7d16edb4cee5ea99d3540146717acbaf1e9ca01a05f10873c3863986873\"), 3)"
        :> <<9, 7, 6, 5, 0, 5, 0, 9, 8, 11, 15, 7, 3, 8, 15, 10, 11, 4, 9, 7, 1, 10, 14, 11, 10, 11, 11, 13, 3, 7, 7, 11, 3, 14, 15, 13, 12, 2, 8, 4, 6, 9, 4, 15, 14, 5, 4, 5, 2, 7, 11, 11, 8, 11, 1, 7, 1, 2, 7, 7, 4, 1, 13, 14>>)
    @@
    ("(Some(\"32fab7d16edb4cee5ea99d3540146717acbaf1e9ca01a05f10873c3863986873\"), 4)"
        :> <<15, 3, 12, 13, 14, 10, 14, 0, 10, 10, 0, 8, 13, 8, 13, 15, 15, 5, 12, 15, 9, 10, 4, 3, 13, 5, 1, 6, 5, 15, 2, 8, 5, 0, 1, 8, 2, 4, 11, 5, 4, 8, 1, 1, 5, 4, 7, 7, 8, 11, 9, 7, 11, 6, 6, 7, 7, 12, 2, 10, 15, 0, 11, 12>>)))
    @@
    (("(Some(\"32fab7d16edb4cee5ea99d3540146717acbaf1e9ca01a05f10873c3863986873\"), 5)"
        :> <<6, 9, 6, 14, 15, 1, 5, 7, 1, 2, 6, 7, 11, 14, 1, 5, 3, 0, 10, 4, 0, 15, 2, 2, 6, 5, 14, 12, 2, 2, 7, 12, 7, 9, 6, 10, 3, 5, 14, 5, 1, 13, 2, 11, 10, 9, 15, 12, 3, 8, 7, 8, 2, 15, 5, 8, 0, 7, 10, 4, 8, 2, 0, 14>>)
    @@
    (("(Some(\"32fab7d16edb4cee5ea99d3540146717acbaf1e9ca01a05f10873c3863986873\"), 6)"
        :> <<8, 7, 2, 1, 4, 3, 2, 14, 0, 0, 15, 8, 7, 4, 12, 3, 3, 4, 12, 14, 11, 3, 4, 12, 2, 12, 10, 1, 7, 12, 8, 5, 10, 3, 15, 15, 2, 15, 13, 6, 7, 14, 0, 3, 12, 5, 5, 6, 8, 14, 13, 15, 9, 1, 12, 10, 2, 3, 11, 11, 1, 15, 11, 13>>)
    @@
    ("(Some(\"32fab7d16edb4cee5ea99d3540146717acbaf1e9ca01a05f10873c3863986873\"), 7)"
        :> <<4, 11, 2, 5, 14, 3, 7, 15, 11, 0, 10, 1, 15, 7, 12, 3, 5, 12, 9, 1, 13, 15, 9, 7, 12, 8, 3, 13, 9, 9, 2, 6, 7, 15, 7, 6, 9, 12, 3, 3, 8, 0, 1, 14, 5, 10, 15, 2, 1, 14, 7, 14, 9, 14, 11, 13, 13, 4, 10, 5, 3, 0, 4, 2>>))))
    @@
    ((("(Some(\"34dcebb3c9b258f7f4fbe3e9588adbec3d7077dfaa6ec70901926e8c3efffba5\"), 0)"
        :> <<15, 5, 8, 5, 12, 7, 0, 9, 2, 6, 0, 7, 14, 11, 6, 9, 5, 5, 1, 7, 13, 4, 3, 3, 0, 10, 4, 7, 12, 10, 1, 12, 14, 15, 7, 14, 3, 1, 7, 12, 8, 8, 4, 4, 7, 13, 6, 0, 0, 10, 2, 13, 6, 0, 12, 8, 1, 13, 9, 0, 2, 7, 3, 6>>)
    @@
    (("(Some(\"34dcebb3c9b258f7f4fbe3e9588adbec3d7077dfaa6ec70901926e8c3efffba5\"), 0)7d3c95f98bd2b66af7c1d3a16cad13e01562539e02afc9695b86a5416092645f"
        :> <<1, 3, 5, 4, 5, 10, 0, 13, 8, 2, 9, 2, 13, 11, 7, 9, 3, 2, 2, 0, 12, 14, 2, 0, 3, 0, 5, 8, 11, 13, 0, 0, 9, 14, 2, 12, 1, 14, 11, 4, 1, 4, 6, 8, 6, 15, 5, 13, 11, 14, 6, 4, 13, 5, 4, 5, 15, 8, 7, 7, 7, 14, 13, 10>>)
    @@
    ("(Some(\"34dcebb3c9b258f7f4fbe3e9588adbec3d7077dfaa6ec70901926e8c3efffba5\"), 2)"
        :> <<7, 2, 7, 11, 5, 5, 4, 7, 13, 11, 5, 8, 13, 10, 8, 11, 5, 5, 5, 15, 4, 5, 7, 14, 10, 13, 0, 2, 13, 8, 14, 10, 6, 8, 11, 8, 10, 5, 12, 11, 9, 4, 6, 1, 7, 9, 6, 0, 8, 10, 0, 15, 4, 4, 0, 10, 13, 4, 9, 11, 13, 10, 4, 0>>)))
    @@
    ((("(Some(\"34dcebb3c9b258f7f4fbe3e9588adbec3d7077dfaa6ec70901926e8c3efffba5\"), 2)7d3c95f98bd2b66af7c1d3a16cad13e01562539e02afc9695b86a5416092645f"
        :> <<7, 6, 15, 13, 0, 3, 7, 2, 2, 11, 10, 12, 13, 4, 5, 14, 15, 15, 13, 12, 5, 9, 0, 10, 3, 14, 5, 9, 6, 13, 10, 13, 14, 5, 8, 11, 2, 0, 11, 2, 6, 13, 8, 4, 0, 9, 0, 6, 1, 9, 14, 0, 9, 6, 7, 12, 7, 11, 13, 1, 15, 7, 11, 14>>)
    @@
    ("(Some(\"34dcebb3c9b258f7f4fbe3e9588adbec3d7077dfaa6ec70901926e8c3efffba5\"), 3)"
        :> <<1, 8, 1, 9, 5, 8, 13, 9, 14, 12, 1, 13, 15, 4, 8, 14, 14, 9, 14, 2, 9, 5, 9, 6, 9, 2, 6, 6, 2, 2, 7, 6, 0, 3, 3, 3, 0, 13, 11, 12, 5, 6, 9, 12, 3, 15, 5, 3, 11, 7, 12, 1, 11, 4, 13, 8, 3, 3, 11, 6, 11, 4, 0, 4>>))
    @@
    (("(Some(\"34dcebb3c9b258f7f4fbe3e9588adbec3d7077dfaa6ec70901926e8c3efffba5\"), 3)7d3c95f98bd2b66af7c1d3a16cad13e01562539e02afc9695b86a5416092645f"
        :> <<14, 7, 8, 14, 5, 8, 1, 0, 11, 6, 2, 5, 8, 15, 3, 12, 5, 9, 10, 14, 13, 6, 12, 10, 13, 6, 1, 4, 8, 3, 8, 10, 4, 9, 3, 11, 3, 0, 2, 6, 7, 7, 5, 0, 12, 1, 4, 2, 7, 14, 8, 8, 15, 7, 2, 12, 11, 4, 4, 7, 1, 12, 7, 3>>)
    @@
    ("(Some(\"34dcebb3c9b258f7f4fbe3e9588adbec3d7077dfaa6ec70901926e8c3efffba5\"), 4)"
        :> <<13, 9, 15, 12, 3, 11, 3, 11, 7, 1, 12, 3, 8, 4, 3, 1, 1, 5, 2, 1, 15, 11, 0, 4, 14, 11, 3, 13, 5, 9, 15, 10, 5, 12, 5, 8, 11, 2, 2, 10, 3, 13, 13, 3, 7, 9, 15, 10, 13, 3, 2, 8, 14, 8, 3, 8, 15, 14, 9, 7, 1, 15, 10, 9>>)))))
    @@
    (((("(Some(\"34dcebb3c9b258f7f4fbe3e9588adbec3d7077dfaa6ec70901926e8c3efffba5\"), 4)7d3c95f98bd2b66af7c1d3a16cad13e01562539e02afc9695b86a5416092645f"
        :> <<12, 1, 3, 7, 8, 13, 13, 1, 4, 3, 5, 14, 5, 6, 0, 10, 15, 13, 9, 1, 9, 7, 15, 6, 1, 15, 2, 8, 14, 15, 12, 9, 2, 13, 3, 0, 4, 14, 12, 6, 10, 11, 10, 5, 12, 6, 3, 2, 4, 6, 7, 3, 10, 8, 11, 12, 2, 14, 6, 4, 3, 11, 0, 14>>)
    @@
    (("(Some(\"34dcebb3c9b258f7f4fbe3e9588adbec3d7077dfaa6ec70901926e8c3efffba5\"), 5)"
        :> <<13, 6, 10, 14, 7, 10, 14, 5, 6, 0, 15, 1, 6, 2, 0, 4, 4, 3, 7, 14, 13, 12, 3, 15, 12, 8, 13, 0, 1, 1, 8, 5, 5, 14, 10, 0, 8, 10, 1, 1, 11, 5, 6, 11, 15, 5, 3, 2, 4, 1, 3, 14, 9, 14, 1, 7, 1, 11, 11, 0, 6, 12, 11, 3>>)
    @@
    ("(Some(\"34dcebb3c9b258f7f4fbe3e9588adbec3d7077dfaa6ec70901926e8c3efffba5\"), 5)7d3c95f98bd2b66af7c1d3a16cad13e01562539e02afc9695b86a5416092645f"
        :> <<14, 10, 10, 13, 12, 11, 4, 3, 10, 1, 13, 9, 9, 1, 11, 14, 11, 4, 11, 1, 9, 10, 15, 8, 15, 9, 6, 11, 2, 2, 4, 1, 9, 0, 15, 7, 15, 7, 0, 10, 2, 1, 14, 1, 1, 8, 3, 1, 12, 15, 4, 15, 3, 13, 3, 10, 2, 12, 8, 9, 7, 4, 7, 1>>)))
    @@
    (("(Some(\"34dcebb3c9b258f7f4fbe3e9588adbec3d7077dfaa6ec70901926e8c3efffba5\"), 6)"
        :> <<11, 13, 14, 15, 11, 6, 2, 12, 7, 11, 3, 1, 2, 0, 10, 2, 13, 8, 12, 5, 3, 1, 13, 9, 4, 1, 9, 6, 4, 11, 9, 14, 6, 11, 5, 2, 12, 1, 5, 8, 4, 11, 7, 8, 11, 0, 2, 3, 3, 9, 8, 5, 0, 1, 14, 14, 14, 0, 15, 3, 4, 3, 14, 3>>)
    @@
    (("(Some(\"34dcebb3c9b258f7f4fbe3e9588adbec3d7077dfaa6ec70901926e8c3efffba5\"), 6)7d3c95f98bd2b66af7c1d3a16cad13e01562539e02afc9695b86a5416092645f"
        :> <<15, 5, 3, 11, 13, 0, 11, 7, 1, 9, 4, 13, 14, 4, 6, 7, 5, 6, 9, 8, 10, 14, 13, 7, 2, 6, 7, 10, 8, 10, 9, 2, 10, 2, 13, 14, 6, 1, 3, 6, 9, 15, 13, 4, 3, 11, 13, 8, 0, 7, 9, 9, 2, 6, 6, 6, 15, 11, 14, 9, 8, 14, 0, 11>>)
    @@
    ("(Some(\"34dcebb3c9b258f7f4fbe3e9588adbec3d7077dfaa6ec70901926e8c3efffba5\"), 7)"
        :> <<7, 3, 10, 3, 9, 3, 6, 1, 10, 1, 13, 6, 13, 10, 6, 14, 13, 14, 7, 0, 15, 1, 9, 4, 8, 10, 10, 13, 3, 7, 13, 15, 6, 10, 0, 10, 3, 13, 10, 1, 9, 8, 1, 3, 10, 13, 11, 1, 4, 2, 3, 12, 7, 1, 0, 1, 10, 9, 1, 9, 14, 11, 14, 5>>))))
    @@
    ((("(Some(\"34dcebb3c9b258f7f4fbe3e9588adbec3d7077dfaa6ec70901926e8c3efffba5\"), 7)7d3c95f98bd2b66af7c1d3a16cad13e01562539e02afc9695b86a5416092645f"
        :> <<8, 9, 6, 13, 9, 12, 12, 7, 9, 1, 0, 8, 11, 1, 12, 10, 5, 6, 10, 3, 5, 10, 3, 8, 6, 0, 1, 4, 6, 9, 0, 3, 5, 3, 11, 11, 14, 8, 11, 1, 2, 10, 12, 13, 7, 5, 3, 12, 4, 3, 9, 7, 4, 6, 6, 14, 2, 3, 6, 11, 2, 4, 5, 11>>)
    @@
    (("(Some(\"383ed2a891a07c7c3b8e22574366e7d8f7a579770be0cede66abb2adf6febae2\"), 0)"
        :> <<9, 7, 3, 14, 3, 9, 14, 3, 9, 9, 3, 8, 6, 12, 4, 4, 11, 2, 8, 12, 6, 12, 9, 4, 8, 13, 8, 14, 4, 5, 3, 2, 12, 15, 10, 12, 0, 3, 9, 13, 2, 5, 13, 1, 5, 2, 6, 10, 8, 10, 4, 1, 8, 14, 1, 15, 10, 5, 15, 3, 13, 8, 12, 5>>)
    @@
    ("(Some(\"383ed2a891a07c7c3b8e22574366e7d8f7a579770be0cede66abb2adf6febae2\"), 2)"
        :> <<7, 2, 1, 14, 10, 15, 10, 4, 14, 6, 1, 12, 9, 15, 4, 8, 8, 7, 4, 9, 5, 8, 10, 7, 4, 0, 15, 9, 0, 4, 3, 14, 0, 15, 0, 14, 2, 4, 13, 7, 9, 7, 1, 10, 4, 5, 15, 14, 13, 4, 10, 12, 7, 13, 5, 10, 7, 14, 2, 10, 2, 4, 12, 0>>)))
    @@
    ((("(Some(\"383ed2a891a07c7c3b8e22574366e7d8f7a579770be0cede66abb2adf6febae2\"), 3)"
        :> <<2, 8, 14, 14, 6, 7, 15, 12, 15, 9, 9, 5, 6, 1, 12, 11, 0, 11, 6, 3, 13, 7, 2, 11, 8, 10, 3, 12, 5, 3, 9, 2, 1, 3, 3, 13, 10, 1, 7, 3, 0, 13, 10, 6, 0, 13, 13, 6, 3, 5, 3, 2, 1, 12, 0, 4, 14, 3, 5, 2, 2, 13, 15, 15>>)
    @@
    ("(Some(\"383ed2a891a07c7c3b8e22574366e7d8f7a579770be0cede66abb2adf6febae2\"), 4)"
        :> <<2, 12, 0, 7, 9, 10, 11, 2, 11, 7, 4, 0, 1, 4, 8, 13, 8, 8, 1, 7, 7, 4, 4, 12, 6, 13, 0, 1, 8, 8, 0, 13, 5, 7, 11, 9, 14, 10, 2, 7, 4, 12, 8, 11, 6, 14, 12, 9, 10, 6, 13, 8, 7, 12, 8, 14, 13, 4, 3, 3, 10, 10, 3, 1>>))
    @@
    (("(Some(\"383ed2a891a07c7c3b8e22574366e7d8f7a579770be0cede66abb2adf6febae2\"), 5)"
        :> <<5, 11, 0, 2, 10, 9, 1, 5, 5, 6, 7, 14, 4, 1, 2, 13, 5, 5, 12, 12, 1, 7, 11, 10, 4, 13, 7, 5, 2, 5, 2, 15, 12, 8, 14, 13, 13, 14, 14, 10, 9, 13, 3, 11, 15, 3, 14, 9, 3, 6, 1, 2, 6, 1, 0, 1, 1, 14, 12, 7, 7, 15, 15, 1>>)
    @@
    ("(Some(\"383ed2a891a07c7c3b8e22574366e7d8f7a579770be0cede66abb2adf6febae2\"), 6)"
        :> <<13, 12, 8, 14, 10, 5, 12, 15, 1, 6, 6, 9, 11, 12, 10, 14, 12, 0, 14, 13, 0, 15, 5, 11, 4, 4, 1, 7, 9, 4, 15, 12, 8, 6, 10, 6, 7, 15, 14, 4, 7, 13, 4, 1, 9, 2, 9, 0, 8, 15, 12, 5, 11, 5, 9, 4, 6, 1, 6, 2, 6, 4, 12, 7>>)))))))
    @@
    (((((("(Some(\"383ed2a891a07c7c3b8e22574366e7d8f7a579770be0cede66abb2adf6febae2\"), 7)"
        :> <<6, 14, 10, 1, 8, 14, 15, 6, 10, 12, 14, 0, 4, 1, 8, 4, 12, 1, 13, 0, 15, 14, 13, 6, 0, 3, 1, 7, 11, 8, 6, 0, 0, 2, 9, 14, 12, 7, 3, 8, 12, 2, 7, 12, 3, 11, 15, 2, 3, 7, 6, 13, 5, 2, 0, 5, 4, 11, 13, 9, 2, 8, 4, 3>>)
    @@
    (("(Some(\"397df47527cb15745196414465ce02e8d7a6d9b5974bc99d342a76e1eef70b82\"), 0)"
        :> <<11, 10, 0, 8, 13, 7, 11, 5, 8, 8, 10, 11, 15, 11, 12, 15, 5, 15, 6, 3, 8, 8, 7, 11, 14, 7, 9, 11, 4, 5, 3, 9, 9, 14, 5, 14, 12, 5, 2, 1, 8, 3, 0, 13, 14, 15, 5, 8, 1, 2, 6, 4, 5, 12, 14, 7, 12, 10, 7, 6, 12, 2, 6, 6>>)
    @@
    ("(Some(\"397df47527cb15745196414465ce02e8d7a6d9b5974bc99d342a76e1eef70b82\"), 0)7d3c95f98bd2b66af7c1d3a16cad13e01562539e02afc9695b86a5416092645f"
        :> <<1, 1, 8, 13, 5, 12, 7, 4, 9, 11, 15, 1, 13, 6, 6, 12, 15, 6, 4, 11, 3, 3, 8, 1, 1, 11, 5, 6, 8, 6, 6, 2, 10, 5, 6, 2, 8, 8, 15, 1, 8, 15, 10, 5, 14, 9, 5, 7, 13, 4, 12, 10, 14, 3, 15, 10, 6, 12, 12, 8, 4, 0, 3, 10>>)))
    @@
    (("(Some(\"397df47527cb15745196414465ce02e8d7a6d9b5974bc99d342a76e1eef70b82\"), 2)"
        :> <<11, 10, 8, 1, 3, 9, 13, 0, 10, 12, 13, 4, 2, 8, 9, 12, 15, 7, 14, 5, 0, 7, 0, 11, 1, 7, 4, 10, 2, 9, 2, 12, 13, 8, 1, 13, 13, 1, 9, 14, 1, 3, 1, 9, 9, 13, 10, 0, 15, 3, 5, 14, 8, 7, 12, 12, 4, 10, 14, 14, 15, 2, 2, 8>>)
    @@
    (("(Some(\"397df47527cb15745196414465ce02e8d7a6d9b5974bc99d342a76e1eef70b82\"), 2)7d3c95f98bd2b66af7c1d3a16cad13e01562539e02afc9695b86a5416092645f"
        :> <<5, 13, 6, 4, 13, 13, 8, 3, 3, 14, 13, 5, 14, 15, 0, 11, 2, 15, 7, 6, 6, 4, 6, 8, 4, 9, 7, 3, 8, 7, 1, 9, 12, 12, 12, 10, 6, 8, 2, 3, 12, 12, 6, 1, 3, 15, 0, 2, 9, 0, 11, 2, 14, 11, 7, 14, 1, 8, 11, 7, 13, 12, 12, 7>>)
    @@
    ("(Some(\"397df47527cb15745196414465ce02e8d7a6d9b5974bc99d342a76e1eef70b82\"), 3)"
        :> <<4, 4, 8, 5, 8, 5, 1, 3, 1, 8, 7, 11, 5, 4, 10, 14, 15, 10, 4, 12, 9, 14, 2, 6, 15, 3, 13, 15, 3, 8, 11, 2, 6, 6, 7, 13, 2, 8, 13, 6, 4, 9, 12, 3, 0, 12, 0, 3, 10, 15, 15, 8, 1, 2, 3, 7, 10, 0, 7, 9, 5, 10, 11, 10>>))))
    @@
    ((("(Some(\"397df47527cb15745196414465ce02e8d7a6d9b5974bc99d342a76e1eef70b82\"), 3)7d3c95f98bd2b66af7c1d3a16cad13e01562539e02afc9695b86a5416092645f"
        :> <<15, 4, 0, 2, 11, 14, 7, 2, 8, 10, 12, 9, 5, 14, 3, 1, 12, 14, 1, 15, 2, 4, 14, 4, 4, 12, 6, 13, 5, 10, 11, 13, 14, 6, 3, 5, 7, 6, 6, 14, 13, 10, 4, 9, 14, 13, 8, 6, 4, 10, 1, 15, 6, 13, 4, 10, 1, 15, 12, 10, 9, 2, 13, 3>>)
    @@
    (("(Some(\"397df47527cb15745196414465ce02e8d7a6d9b5974bc99d342a76e1eef70b82\"), 4)"
        :> <<12, 6, 7, 13, 12, 4, 8, 8, 14, 9, 15, 3, 7, 12, 1, 14, 0, 10, 11, 0, 5, 10, 14, 9, 5, 2, 0, 9, 0, 12, 8, 7, 0, 0, 14, 12, 11, 10, 1, 12, 10, 10, 6, 8, 15, 3, 0, 4, 6, 11, 6, 6, 7, 3, 0, 10, 4, 15, 13, 13, 9, 14, 10, 9>>)
    @@
    ("(Some(\"397df47527cb15745196414465ce02e8d7a6d9b5974bc99d342a76e1eef70b82\"), 4)7d3c95f98bd2b66af7c1d3a16cad13e01562539e02afc9695b86a5416092645f"
        :> <<10, 7, 15, 11, 7, 10, 14, 12, 9, 11, 0, 11, 9, 7, 1, 1, 5, 14, 13, 4, 10, 11, 3, 0, 13, 12, 12, 8, 13, 3, 1, 9, 7, 2, 13, 12, 2, 6, 5, 1, 11, 5, 6, 11, 6, 2, 12, 1, 14, 0, 0, 0, 2, 11, 11, 0, 1, 9, 13, 13, 11, 5, 7, 4>>)))
    @@
    ((("(Some(\"397df47527cb15745196414465ce02e8d7a6d9b5974bc99d342a76e1eef70b82\"), 5)"
        :> <<1, 6, 12, 4, 7, 5, 13, 9, 13, 7, 8, 3, 6, 15, 7, 6, 10, 9, 3, 4, 7, 15, 9, 8, 4, 7, 6, 10, 12, 15, 1, 13, 0, 1, 12, 11, 3, 2, 6, 10, 5, 12, 10, 8, 9, 3, 5, 2, 2, 13, 4, 0, 4, 3, 14, 7, 7, 10, 11, 5, 8, 12, 8, 1>>)
    @@
    ("(Some(\"397df47527cb15745196414465ce02e8d7a6d9b5974bc99d342a76e1eef70b82\"), 5)7d3c95f98bd2b66af7c1d3a16cad13e01562539e02afc9695b86a5416092645f"
        :> <<12, 11, 9, 12, 15, 15, 1, 4, 3, 2, 11, 10, 13, 15, 13, 9, 0, 10, 14, 2, 3, 5, 4, 7, 3, 2, 11, 15, 11, 0, 5, 2, 11, 3, 8, 6, 10, 3, 3, 15, 11, 11, 2, 14, 11, 8, 0, 14, 6, 15, 3, 2, 4, 0, 7, 6, 3, 6, 1, 13, 3, 1, 2, 2>>))
    @@
    (("(Some(\"397df47527cb15745196414465ce02e8d7a6d9b5974bc99d342a76e1eef70b82\"), 6)"
        :> <<14, 7, 6, 8, 5, 10, 3, 12, 0, 15, 13, 11, 7, 7, 4, 11, 10, 7, 3, 1, 9, 5, 10, 0, 12, 2, 6, 12, 6, 0, 7, 9, 8, 11, 4, 5, 12, 14, 10, 1, 3, 1, 13, 12, 6, 7, 15, 0, 10, 1, 11, 12, 5, 14, 6, 12, 10, 0, 13, 3, 14, 13, 1, 14>>)
    @@
    ("(Some(\"397df47527cb15745196414465ce02e8d7a6d9b5974bc99d342a76e1eef70b82\"), 6)7d3c95f98bd2b66af7c1d3a16cad13e01562539e02afc9695b86a5416092645f"
        :> <<6, 11, 15, 7, 1, 12, 3, 4, 7, 8, 6, 8, 9, 5, 15, 6, 7, 10, 7, 1, 1, 6, 4, 9, 8, 8, 10, 13, 12, 5, 14, 14, 12, 0, 12, 7, 13, 11, 11, 6, 7, 9, 13, 6, 10, 6, 4, 13, 6, 11, 12, 9, 1, 5, 14, 15, 5, 4, 12, 15, 0, 2, 11, 0>>)))))
    @@
    (((("(Some(\"397df47527cb15745196414465ce02e8d7a6d9b5974bc99d342a76e1eef70b82\"), 7)"
        :> <<14, 12, 15, 2, 5, 8, 4, 4, 10, 12, 7, 8, 7, 7, 13, 15, 12, 6, 7, 0, 14, 8, 4, 7, 9, 9, 9, 9, 8, 1, 4, 14, 12, 6, 2, 2, 3, 0, 3, 0, 11, 4, 10, 10, 10, 7, 14, 2, 1, 4, 11, 1, 8, 3, 14, 0, 15, 9, 1, 9, 13, 14, 1, 13>>)
    @@
    (("(Some(\"397df47527cb15745196414465ce02e8d7a6d9b5974bc99d342a76e1eef70b82\"), 7)7d3c95f98bd2b66af7c1d3a16cad13e01562539e02afc9695b86a5416092645f"
        :> <<1, 5, 7, 12, 5, 9, 11, 0, 5, 2, 11, 8, 1, 2, 14, 14, 9, 14, 12, 6, 15, 3, 9, 14, 4, 4, 2, 15, 3, 11, 0, 4, 15, 2, 15, 12, 1, 11, 5, 2, 14, 13, 0, 2, 14, 11, 14, 4, 3, 4, 10, 10, 12, 13, 12, 15, 10, 8, 15, 11, 5, 2, 4, 1>>)
    @@
    ("(Some(\"3cefdb44f4842b37fa1f6b716ca4318998761796d0e87b38bf0c4224915a1fea\"), 0)"
        :> <<10, 15, 9, 4, 0, 12, 11, 15, 10, 7, 6, 15, 14, 9, 11, 8, 15, 15, 3, 1, 10, 6, 2, 4, 14, 1, 13, 8, 7, 12, 4, 6, 12, 0, 12, 9, 7, 0, 11, 2, 6, 0, 11, 8, 12, 0, 8, 14, 9, 1, 1, 10, 4, 11, 14, 4, 10, 14, 13, 12, 3, 13, 0, 15>>)))
    @@
    (("(Some(\"3cefdb44f4842b37fa1f6b716ca4318998761796d0e87b38bf0c4224915a1fea\"), 2)"
        :> <<1, 3, 8, 6, 12, 3, 8, 9, 9, 7, 2, 2, 7, 2, 1, 15, 9, 11, 8, 14, 4, 2, 14, 4, 4, 3, 7, 7, 15, 0, 11, 3, 3, 7, 4, 1, 3, 13, 1, 3, 4, 3, 5, 4, 1, 4, 1, 9, 13, 9, 4, 12, 15, 7, 4, 15, 10, 8, 10, 5, 13, 9, 13, 15>>)
    @@
    (("(Some(\"3cefdb44f4842b37fa1f6b716ca4318998761796d0e87b38bf0c4224915a1fea\"), 3)"
        :> <<1, 5, 13, 14, 6, 5, 1, 13, 2, 6, 1, 14, 9, 7, 1, 7, 1, 0, 0, 5, 12, 0, 2, 9, 11, 0, 15, 10, 15, 2, 1, 15, 1, 6, 3, 14, 1, 7, 12, 11, 1, 6, 10, 10, 15, 11, 9, 11, 14, 4, 2, 12, 7, 11, 5, 9, 7, 5, 5, 4, 12, 8, 11, 1>>)
    @@
    ("(Some(\"3cefdb44f4842b37fa1f6b716ca4318998761796d0e87b38bf0c4224915a1fea\"), 4)"
        :> <<10, 7, 2, 12, 2, 9, 14, 12, 13, 6, 4, 2, 7, 8, 9, 11, 8, 2, 12, 12, 2, 4, 12, 5, 5, 9, 12, 10, 7, 15, 15, 9, 11, 14, 13, 10, 7, 3, 5, 2, 5, 13, 0, 12, 5, 14, 3, 14, 4, 1, 4, 7, 6, 1, 15, 12, 14, 12, 13, 14, 0, 8, 4, 11>>))))
    @@
    ((("(Some(\"3cefdb44f4842b37fa1f6b716ca4318998761796d0e87b38bf0c4224915a1fea\"), 5)"
        :> <<12, 12, 3, 7, 15, 11, 13, 9, 5, 7, 10, 1, 14, 11, 7, 8, 2, 13, 10, 6, 11, 11, 15, 1, 3, 1, 12, 10, 3, 14, 5, 6, 8, 6, 5, 12, 15, 7, 10, 10, 11, 6, 10, 14, 2, 11, 1, 14, 15, 9, 15, 10, 11, 9, 0, 1, 5, 3, 2, 0, 1, 1, 6, 11>>)
    @@
    (("(Some(\"3cefdb44f4842b37fa1f6b716ca4318998761796d0e87b38bf0c4224915a1fea\"), 6)"
        :> <<10, 4, 9, 2, 1, 14, 3, 14, 5, 11, 8, 2, 7, 13, 12, 8, 1, 15, 9, 14, 15, 14, 4, 1, 3, 6, 10, 8, 3, 4, 11, 6, 1, 3, 6, 8, 12, 3, 7, 4, 11, 11, 9, 15, 12, 4, 14, 5, 11, 13, 7, 6, 15, 11, 5, 6, 1, 13, 15, 10, 0, 2, 14, 1>>)
    @@
    ("(Some(\"3cefdb44f4842b37fa1f6b716ca4318998761796d0e87b38bf0c4224915a1fea\"), 7)"
        :> <<14, 7, 12, 7, 2, 3, 11, 7, 11, 2, 3, 6, 6, 11, 3, 9, 4, 10, 10, 7, 10, 12, 4, 1, 8, 8, 6, 3, 0, 4, 5, 7, 15, 2, 3, 2, 3, 11, 14, 11, 2, 9, 2, 2, 12, 12, 6, 10, 15, 5, 12, 14, 1, 3, 12, 8, 1, 14, 2, 14, 8, 0, 8, 0>>)))
    @@
    ((("(Some(\"4170c6708db7026c46e9a6bbfaa6b72cdfdc07d2bd4a97b0295dcd90644bcd7b\"), 0)"
        :> <<10, 12, 7, 2, 13, 8, 14, 9, 1, 13, 9, 4, 13, 4, 1, 9, 8, 12, 11, 0, 11, 6, 3, 7, 4, 2, 4, 12, 7, 7, 4, 15, 6, 9, 5, 4, 0, 4, 11, 6, 3, 11, 2, 5, 11, 8, 11, 10, 1, 6, 9, 15, 15, 5, 6, 14, 9, 0, 1, 10, 2, 15, 13, 2>>)
    @@
    ("(Some(\"4170c6708db7026c46e9a6bbfaa6b72cdfdc07d2bd4a97b0295dcd90644bcd7b\"), 2)"
        :> <<14, 11, 3, 11, 0, 11, 11, 5, 14, 7, 3, 10, 15, 7, 9, 13, 3, 11, 1, 15, 2, 8, 7, 11, 2, 3, 12, 4, 0, 3, 15, 10, 15, 2, 7, 3, 2, 10, 0, 12, 14, 13, 9, 14, 10, 14, 10, 1, 12, 7, 15, 3, 9, 4, 0, 5, 8, 15, 7, 9, 1, 2, 15, 10>>))
    @@
    (("(Some(\"4170c6708db7026c46e9a6bbfaa6b72cdfdc07d2bd4a97b0295dcd90644bcd7b\"), 3)"
        :> <<12, 4, 0, 13, 12, 10, 5, 13, 4, 2, 2, 7, 13, 9, 7, 13, 4, 9, 0, 7, 12, 7, 2, 6, 8, 12, 11, 0, 4, 9, 13, 14, 5, 10, 10, 7, 3, 5, 8, 2, 5, 13, 14, 3, 3, 0, 9, 2, 2, 14, 6, 3, 0, 13, 1, 7, 12, 14, 7, 0, 12, 13, 2, 14>>)
    @@
    ("(Some(\"4170c6708db7026c46e9a6bbfaa6b72cdfdc07d2bd4a97b0295dcd90644bcd7b\"), 4)"
        :> <<2, 8, 14, 7, 1, 9, 14, 4, 8, 7, 13, 2, 4, 1, 1, 6, 2, 13, 4, 6, 3, 7, 14, 5, 6, 9, 15, 9, 10, 4, 0, 5, 14, 0, 14, 3, 14, 6, 12, 13, 0, 1, 13, 15, 12, 9, 3, 11, 8, 1, 1, 1, 10, 2, 2, 11, 7, 6, 6, 10, 2, 15, 10, 15>>))))))
    @@
    ((((("(Some(\"4170c6708db7026c46e9a6bbfaa6b72cdfdc07d2bd4a97b0295dcd90644bcd7b\"), 5)"
        :> <<9, 3, 3, 1, 3, 10, 12, 10, 7, 5, 11, 12, 0, 11, 5, 4, 11, 7, 3, 14, 4, 2, 4, 8, 8, 1, 11, 7, 0, 0, 9, 6, 6, 3, 1, 15, 0, 9, 5, 3, 11, 11, 8, 11, 6, 12, 0, 9, 15, 5, 14, 13, 5, 11, 7, 15, 3, 13, 9, 11, 15, 10, 11, 14>>)
    @@
    (("(Some(\"4170c6708db7026c46e9a6bbfaa6b72cdfdc07d2bd4a97b0295dcd90644bcd7b\"), 6)"
        :> <<14, 14, 12, 2, 11, 3, 15, 12, 9, 9, 14, 10, 7, 7, 2, 8, 15, 1, 13, 12, 7, 11, 15, 14, 12, 8, 15, 9, 15, 5, 5, 6, 4, 1, 14, 11, 9, 14, 11, 13, 1, 9, 1, 0, 3, 15, 14, 4, 9, 11, 3, 12, 4, 6, 14, 4, 4, 1, 4, 8, 12, 4, 12, 0>>)
    @@
    ("(Some(\"4170c6708db7026c46e9a6bbfaa6b72cdfdc07d2bd4a97b0295dcd90644bcd7b\"), 7)"
        :> <<15, 0, 3, 13, 1, 0, 11, 12, 7, 6, 3, 15, 10, 13, 3, 6, 4, 13, 7, 4, 3, 4, 4, 10, 12, 12, 5, 15, 2, 2, 5, 6, 14, 5, 15, 1, 2, 15, 6, 6, 11, 1, 14, 7, 6, 4, 12, 5, 12, 0, 7, 12, 10, 14, 9, 4, 10, 9, 6, 10, 11, 8, 8, 15>>)))
    @@
    (("(Some(\"44998c5fc622f2fa75aafe82884ac407e77ff7b5184d65cf758c024b12eca068\"), 0)"
        :> <<15, 15, 10, 1, 5, 8, 15, 9, 0, 8, 7, 7, 3, 13, 0, 9, 14, 0, 14, 12, 8, 7, 4, 12, 5, 7, 9, 1, 3, 7, 9, 7, 0, 3, 13, 3, 1, 2, 8, 10, 4, 11, 6, 15, 13, 14, 6, 7, 7, 4, 3, 0, 6, 10, 8, 3, 15, 11, 14, 4, 2, 15, 8, 8>>)
    @@
    (("(Some(\"44998c5fc622f2fa75aafe82884ac407e77ff7b5184d65cf758c024b12eca068\"), 0)7d3c95f98bd2b66af7c1d3a16cad13e01562539e02afc9695b86a5416092645f"
        :> <<0, 12, 12, 9, 11, 5, 9, 2, 6, 15, 14, 12, 5, 13, 3, 11, 11, 2, 11, 10, 14, 15, 15, 12, 8, 5, 4, 3, 1, 2, 9, 7, 1, 10, 7, 5, 11, 2, 9, 2, 14, 6, 7, 10, 10, 2, 3, 8, 12, 8, 6, 2, 0, 5, 10, 4, 15, 13, 11, 2, 9, 4, 10, 15>>)
    @@
    ("(Some(\"44998c5fc622f2fa75aafe82884ac407e77ff7b5184d65cf758c024b12eca068\"), 2)"
        :> <<4, 12, 5, 1, 14, 2, 4, 15, 12, 0, 15, 11, 3, 14, 6, 7, 3, 8, 13, 9, 9, 8, 1, 11, 15, 14, 1, 14, 4, 4, 14, 14, 9, 5, 7, 4, 13, 0, 3, 3, 12, 1, 5, 0, 0, 11, 10, 11, 9, 10, 8, 5, 0, 8, 12, 14, 0, 2, 4, 11, 1, 4, 8, 6>>))))
    @@
    ((("(Some(\"44998c5fc622f2fa75aafe82884ac407e77ff7b5184d65cf758c024b12eca068\"), 2)7d3c95f98bd2b66af7c1d3a16cad13e01562539e02afc9695b86a5416092645f"
        :> <<5, 3, 3, 12, 4, 11, 1, 15, 3, 8, 9, 6, 11, 6, 4, 4, 1, 5, 8, 13, 13, 10, 14, 15, 3, 3, 13, 9, 7, 14, 5, 10, 8, 9, 7, 5, 9, 4, 12, 15, 10, 4, 12, 13, 10, 13, 2, 4, 15, 13, 4, 14, 10, 9, 15, 11, 7, 7, 0, 3, 13, 10, 12, 3>>)
    @@
    (("(Some(\"44998c5fc622f2fa75aafe82884ac407e77ff7b5184d65cf758c024b12eca068\"), 3)"
        :> <<10, 0, 9, 14, 0, 10, 0, 5, 13, 10, 10, 14, 6, 14, 1, 3, 13, 6, 11, 8, 8, 12, 6, 0, 12, 9, 5, 14, 11, 1, 7, 3, 3, 1, 3, 5, 3, 4, 2, 10, 10, 7, 6, 15, 9, 1, 1, 5, 14, 13, 14, 14, 14, 3, 13, 15, 7, 14, 13, 7, 13, 1, 8, 3>>)
    @@
    ("(Some(\"44998c5fc622f2fa75aafe82884ac407e77ff7b5184d65cf758c024b12eca068\"), 3)7d3c95f98bd2b66af7c1d3a16cad13e01562539e02afc9695b86a5416092645f"
        :> <<8, 13, 0, 4, 15, 13, 0, 8, 14, 1, 12, 4, 2, 4, 8, 9, 15, 5, 14, 15, 1, 7, 0, 12, 15, 3, 9, 11, 7, 1, 7, 1, 15, 15, 15, 13, 8, 1, 3, 15, 3, 0, 10, 7, 5, 14, 3, 4, 1, 12, 0, 11, 3, 10, 12, 5, 10, 3, 10, 14, 2, 9, 15, 15>>)))
    @@
    ((("(Some(\"44998c5fc622f2fa75aafe82884ac407e77ff7b5184d65cf758c024b12eca068\"), 4)"
        :> <<10, 5, 9, 1, 4, 0, 13, 7, 6, 8, 8, 3, 3, 4, 15, 0, 15, 6, 5, 15, 15, 14, 2, 6, 1, 0, 3, 7, 6, 6, 6, 8, 13, 13, 14, 6, 12, 6, 2, 7, 14, 6, 2, 10, 15, 3, 1, 2, 0, 7, 7, 1, 0, 13, 9, 4, 7, 3, 3, 9, 13, 15, 13, 9>>)
    @@
    ("(Some(\"44998c5fc622f2fa75aafe82884ac407e77ff7b5184d65cf758c024b12eca068\"), 4)7d3c95f98bd2b66af7c1d3a16cad13e01562539e02afc9695b86a5416092645f"
        :> <<6, 0, 7, 3, 5, 5, 13, 4, 8, 1, 7, 0, 4, 7, 9, 14, 3, 10, 7, 3, 1, 5, 3, 8, 7, 5, 13, 11, 5, 1, 14, 11, 9, 2, 4, 5, 8, 10, 14, 15, 12, 9, 1, 7, 11, 6, 7, 3, 8, 10, 11, 9, 6, 10, 5, 2, 11, 7, 3, 10, 12, 8, 12, 3>>))
    @@
    (("(Some(\"44998c5fc622f2fa75aafe82884ac407e77ff7b5184d65cf758c024b12eca068\"), 5)"
        :> <<4, 8, 5, 9, 4, 8, 6, 12, 0, 8, 6, 12, 14, 13, 13, 12, 0, 4, 14, 15, 10, 11, 6, 2, 3, 0, 5, 12, 0, 15, 0, 2, 11, 13, 13, 7, 4, 5, 13, 1, 2, 6, 3, 14, 10, 4, 9, 0, 8, 10, 9, 4, 13, 10, 6, 9, 3, 9, 8, 15, 13, 9, 12, 12>>)
    @@
    ("(Some(\"44998c5fc622f2fa75aafe82884ac407e77ff7b5184d65cf758c024b12eca068\"), 5)7d3c95f98bd2b66af7c1d3a16cad13e01562539e02afc9695b86a5416092645f"
        :> <<8, 6, 10, 10, 15, 1, 6, 1, 2, 2, 6, 8, 8, 2, 4, 10, 0, 2, 8, 0, 15, 0, 7, 10, 10, 7, 12, 13, 10, 8, 2, 10, 11, 11, 4, 10, 3, 11, 2, 11, 14, 5, 4, 10, 5, 12, 0, 7, 6, 4, 5, 4, 4, 9, 3, 2, 8, 5, 7, 13, 9, 15, 5, 12>>)))))
    @@
    (((("(Some(\"44998c5fc622f2fa75aafe82884ac407e77ff7b5184d65cf758c024b12eca068\"), 6)"
        :> <<15, 10, 6, 2, 11, 6, 8, 0, 2, 15, 11, 15, 2, 5, 0, 8, 6, 4, 3, 10, 13, 9, 3, 12, 8, 7, 5, 6, 13, 0, 5, 6, 11, 11, 2, 2, 9, 1, 2, 15, 3, 1, 11, 5, 7, 7, 9, 6, 7, 11, 9, 13, 5, 1, 2, 14, 11, 2, 13, 8, 14, 2, 6, 13>>)
    @@
    (("(Some(\"44998c5fc622f2fa75aafe82884ac407e77ff7b5184d65cf758c024b12eca068\"), 6)7d3c95f98bd2b66af7c1d3a16cad13e01562539e02afc9695b86a5416092645f"
        :> <<14, 3, 3, 7, 13, 4, 8, 9, 12, 0, 10, 14, 7, 15, 3, 6, 13, 11, 13, 4, 13, 1, 14, 8, 15, 8, 13, 8, 3, 3, 7, 13, 5, 4, 7, 3, 12, 3, 15, 12, 0, 11, 1, 13, 4, 6, 6, 1, 7, 2, 11, 10, 11, 12, 1, 11, 4, 11, 6, 8, 8, 6, 1, 13>>)
    @@
    ("(Some(\"44998c5fc622f2fa75aafe82884ac407e77ff7b5184d65cf758c024b12eca068\"), 7)"
        :> <<2, 15, 0, 11, 12, 14, 4, 5, 4, 12, 9, 14, 8, 1, 11, 5, 9, 4, 13, 8, 11, 1, 10, 6, 15, 3, 3, 15, 0, 2, 1, 8, 13, 7, 15, 10, 13, 0, 12, 12, 7, 1, 3, 13, 1, 5, 15, 4, 15, 0, 11, 0, 5, 13, 1, 13, 2, 3, 3, 7, 13, 1, 14, 12>>)))
    @@
    ((("(Some(\"44998c5fc622f2fa75aafe82884ac407e77ff7b5184d65cf758c024b12eca068\"), 7)7d3c95f98bd2b66af7c1d3a16cad13e01562539e02afc9695b86a5416092645f"
        :> <<12, 14, 9, 12, 9, 4, 6, 3, 13, 15, 4, 0, 2, 8, 6, 13, 13, 12, 4, 10, 1, 1, 14, 7, 11, 10, 7, 14, 9, 5, 13, 5, 6, 0, 14, 6, 10, 14, 1, 3, 1, 15, 4, 11, 11, 13, 14, 11, 6, 11, 3, 0, 11, 2, 12, 5, 10, 3, 0, 8, 8, 2, 14, 11>>)
    @@
    ("(Some(\"464dec240aa35a4315371a66b3e900fd7b89238800d8f69053731aedc45e00a1\"), 0)"
        :> <<6, 3, 5, 7, 2, 0, 13, 6, 1, 13, 14, 10, 1, 9, 4, 3, 3, 1, 12, 4, 0, 13, 6, 7, 8, 3, 4, 6, 9, 0, 1, 10, 1, 4, 13, 10, 5, 9, 7, 8, 8, 3, 14, 15, 8, 1, 11, 9, 10, 5, 9, 4, 0, 3, 4, 5, 10, 5, 4, 3, 12, 5, 2, 0>>))
    @@
    (("(Some(\"464dec240aa35a4315371a66b3e900fd7b89238800d8f69053731aedc45e00a1\"), 0)0af7ba66f9a27ed0e229221aada0cc88d5d6fd58f46f72eb626bd37b8e94efc8"
        :> <<1, 7, 12, 3, 6, 12, 11, 2, 11, 0, 4, 8, 8, 14, 13, 1, 5, 2, 6, 1, 10, 15, 10, 6, 2, 12, 1, 2, 2, 12, 5, 5, 8, 10, 5, 6, 7, 13, 1, 3, 13, 6, 15, 9, 0, 11, 5, 6, 6, 12, 2, 15, 6, 2, 12, 10, 7, 12, 6, 11, 5, 15, 10, 3>>)
    @@
    ("(Some(\"464dec240aa35a4315371a66b3e900fd7b89238800d8f69053731aedc45e00a1\"), 2)"
        :> <<3, 7, 5, 7, 14, 7, 12, 9, 12, 4, 11, 3, 2, 14, 11, 8, 12, 8, 9, 9, 15, 15, 10, 14, 1, 0, 9, 8, 11, 0, 2, 11, 5, 13, 14, 10, 5, 6, 15, 2, 10, 13, 12, 10, 3, 6, 1, 13, 7, 5, 14, 1, 8, 3, 3, 2, 0, 7, 0, 13, 10, 13, 15, 14>>))))
    @@
    ((("(Some(\"464dec240aa35a4315371a66b3e900fd7b89238800d8f69053731aedc45e00a1\"), 2)0af7ba66f9a27ed0e229221aada0cc88d5d6fd58f46f72eb626bd37b8e94efc8"
        :> <<6, 13, 3, 1, 14, 2, 8, 8, 7, 12, 8, 9, 0, 11, 14, 0, 13, 3, 12, 9, 3, 10, 11, 4, 8, 2, 7, 9, 14, 6, 11, 13, 10, 7, 12, 14, 15, 1, 8, 4, 11, 7, 4, 1, 15, 5, 11, 15, 4, 6, 11, 1, 13, 5, 3, 7, 11, 3, 14, 0, 7, 13, 7, 14>>)
    @@
    (("(Some(\"464dec240aa35a4315371a66b3e900fd7b89238800d8f69053731aedc45e00a1\"), 3)"
        :> <<8, 13, 3, 10, 4, 3, 15, 0, 9, 9, 11, 5, 14, 13, 1, 2, 1, 4, 9, 4, 10, 1, 4, 10, 4, 1, 6, 15, 15, 3, 6, 10, 8, 2, 14, 6, 9, 3, 9, 3, 5, 0, 13, 11, 9, 13, 1, 6, 11, 4, 8, 3, 0, 10, 6, 7, 7, 1, 3, 13, 0, 13, 14, 12>>)
    @@
    ("(Some(\"464dec240aa35a4315371a66b3e900fd7b89238800d8f69053731aedc45e00a1\"), 3)0af7ba66f9a27ed0e229221aada0cc88d5d6fd58f46f72eb626bd37b8e94efc8"
        :> <<7, 13, 10, 11, 14, 14, 7, 15, 11, 4, 15, 12, 15, 1, 5, 14, 6, 14, 15, 5, 5, 8, 15, 11, 9, 15, 7, 12, 1, 5, 6, 2, 2, 15, 11, 11, 9, 11, 4, 12, 0, 7, 15, 8, 11, 6, 12, 12, 11, 15, 12, 8, 15, 14, 15, 5, 0, 13, 13, 1, 7, 2, 12, 12>>)))
    @@
    ((("(Some(\"464dec240aa35a4315371a66b3e900fd7b89238800d8f69053731aedc45e00a1\"), 4)"
        :> <<10, 15, 15, 11, 15, 12, 13, 15, 1, 15, 2, 5, 10, 4, 7, 3, 4, 6, 0, 11, 0, 10, 8, 0, 9, 10, 12, 15, 1, 0, 1, 1, 3, 14, 8, 5, 1, 14, 4, 15, 1, 3, 11, 5, 7, 13, 10, 0, 10, 14, 3, 13, 5, 8, 10, 0, 15, 2, 3, 10, 2, 6, 12, 5>>)
    @@
    ("(Some(\"464dec240aa35a4315371a66b3e900fd7b89238800d8f69053731aedc45e00a1\"), 4)0af7ba66f9a27ed0e229221aada0cc88d5d6fd58f46f72eb626bd37b8e94efc8"
        :> <<13, 3, 0, 14, 6, 0, 12, 9, 3, 5, 12, 3, 2, 10, 4, 13, 11, 12, 6, 7, 2, 12, 2, 12, 9, 15, 15, 6, 7, 9, 1, 7, 5, 3, 8, 9, 12, 9, 15, 2, 4, 2, 1, 14, 6, 7, 15, 6, 9, 11, 7, 12, 13, 9, 8, 15, 14, 0, 2, 11, 0, 7, 13, 9>>))
    @@
    (("(Some(\"464dec240aa35a4315371a66b3e900fd7b89238800d8f69053731aedc45e00a1\"), 5)"
        :> <<1, 8, 9, 2, 8, 1, 4, 5, 8, 1, 0, 8, 7, 10, 5, 14, 6, 13, 13, 6, 4, 2, 4, 11, 2, 15, 7, 4, 0, 11, 11, 4, 14, 5, 7, 12, 5, 5, 12, 4, 11, 9, 12, 14, 10, 4, 5, 4, 13, 15, 8, 14, 1, 12, 10, 12, 7, 2, 5, 14, 6, 7, 15, 14>>)
    @@
    ("(Some(\"464dec240aa35a4315371a66b3e900fd7b89238800d8f69053731aedc45e00a1\"), 5)0af7ba66f9a27ed0e229221aada0cc88d5d6fd58f46f72eb626bd37b8e94efc8"
        :> <<15, 10, 12, 10, 4, 6, 1, 15, 15, 2, 0, 2, 10, 14, 6, 1, 7, 9, 0, 15, 15, 6, 13, 9, 6, 5, 14, 0, 11, 3, 2, 12, 8, 11, 4, 13, 15, 7, 7, 6, 13, 4, 8, 9, 3, 0, 6, 9, 10, 1, 1, 12, 15, 4, 9, 8, 9, 10, 12, 0, 8, 10, 10, 5>>)))))))))))
    @@
    (((((((((("(Some(\"464dec240aa35a4315371a66b3e900fd7b89238800d8f69053731aedc45e00a1\"), 6)"
        :> <<6, 4, 2, 12, 13, 13, 13, 15, 0, 11, 1, 15, 7, 12, 13, 3, 5, 0, 13, 10, 13, 13, 3, 10, 10, 11, 7, 4, 12, 7, 9, 8, 8, 15, 8, 7, 10, 0, 5, 9, 0, 12, 10, 12, 0, 14, 9, 2, 11, 6, 6, 4, 3, 11, 0, 10, 1, 2, 13, 10, 7, 10, 12, 5>>)
    @@
    (("(Some(\"464dec240aa35a4315371a66b3e900fd7b89238800d8f69053731aedc45e00a1\"), 6)0af7ba66f9a27ed0e229221aada0cc88d5d6fd58f46f72eb626bd37b8e94efc8"
        :> <<11, 2, 4, 6, 15, 7, 10, 12, 11, 10, 12, 8, 6, 4, 8, 5, 1, 3, 6, 4, 3, 10, 7, 9, 2, 8, 15, 12, 8, 2, 0, 11, 8, 8, 1, 8, 7, 11, 11, 5, 9, 4, 11, 4, 15, 3, 6, 10, 15, 6, 0, 0, 14, 10, 10, 13, 1, 0, 15, 1, 2, 9, 11, 5>>)
    @@
    ("(Some(\"464dec240aa35a4315371a66b3e900fd7b89238800d8f69053731aedc45e00a1\"), 7)"
        :> <<14, 7, 11, 13, 11, 3, 15, 12, 11, 4, 13, 15, 15, 1, 1, 11, 15, 0, 15, 12, 1, 13, 4, 0, 14, 15, 5, 14, 10, 12, 1, 12, 2, 13, 4, 1, 9, 9, 4, 10, 6, 3, 4, 1, 0, 11, 10, 3, 13, 13, 8, 1, 8, 11, 8, 15, 3, 2, 15, 7, 6, 2, 5, 7>>)))
    @@
    (("(Some(\"464dec240aa35a4315371a66b3e900fd7b89238800d8f69053731aedc45e00a1\"), 7)0af7ba66f9a27ed0e229221aada0cc88d5d6fd58f46f72eb626bd37b8e94efc8"
        :> <<7, 12, 6, 5, 15, 3, 15, 2, 13, 9, 3, 4, 4, 2, 5, 5, 12, 5, 12, 12, 3, 0, 11, 4, 10, 12, 2, 1, 12, 13, 12, 12, 13, 15, 1, 4, 7, 5, 6, 4, 0, 12, 8, 1, 6, 0, 6, 6, 15, 2, 3, 3, 5, 3, 7, 0, 7, 10, 15, 5, 9, 4, 9, 10>>)
    @@
    (("(Some(\"46985b8a6a9f3129fa9109552892477fc1640088fd5211149eb617cccaec6187\"), 0)"
        :> <<13, 4, 15, 11, 14, 2, 5, 8, 6, 14, 6, 2, 9, 2, 3, 1, 7, 10, 11, 11, 0, 7, 0, 9, 5, 15, 7, 11, 10, 2, 7, 10, 10, 4, 14, 13, 0, 9, 14, 4, 10, 10, 12, 12, 9, 4, 1, 6, 8, 9, 10, 10, 6, 11, 12, 6, 13, 4, 3, 3, 8, 13, 13, 6>>)
    @@
    ("(Some(\"46985b8a6a9f3129fa9109552892477fc1640088fd5211149eb617cccaec6187\"), 2)"
        :> <<9, 6, 14, 12, 0, 3, 12, 11, 7, 3, 5, 0, 4, 15, 9, 1, 12, 11, 15, 6, 3, 1, 11, 7, 15, 0, 12, 9, 10, 0, 3, 3, 4, 4, 0, 5, 8, 4, 7, 10, 1, 5, 3, 8, 14, 13, 6, 0, 8, 11, 10, 6, 2, 7, 8, 2, 6, 2, 12, 5, 8, 1, 13, 12>>))))
    @@
    ((("(Some(\"46985b8a6a9f3129fa9109552892477fc1640088fd5211149eb617cccaec6187\"), 3)"
        :> <<13, 13, 15, 8, 9, 11, 11, 15, 11, 13, 5, 10, 3, 14, 11, 15, 0, 1, 10, 8, 15, 7, 0, 3, 11, 5, 13, 9, 11, 14, 7, 1, 11, 10, 9, 7, 7, 4, 6, 12, 4, 9, 9, 5, 11, 9, 14, 2, 11, 2, 11, 5, 13, 15, 0, 0, 3, 6, 7, 10, 13, 8, 8, 5>>)
    @@
    (("(Some(\"46985b8a6a9f3129fa9109552892477fc1640088fd5211149eb617cccaec6187\"), 4)"
        :> <<10, 14, 8, 14, 14, 2, 15, 8, 10, 1, 5, 0, 6, 0, 5, 12, 9, 2, 11, 5, 3, 13, 1, 2, 6, 2, 2, 1, 13, 7, 9, 1, 7, 10, 11, 4, 15, 10, 10, 8, 9, 7, 0, 11, 8, 6, 3, 7, 4, 10, 15, 0, 7, 0, 5, 3, 3, 10, 13, 2, 9, 15, 5, 6>>)
    @@
    ("(Some(\"46985b8a6a9f3129fa9109552892477fc1640088fd5211149eb617cccaec6187\"), 5)"
        :> <<6, 4, 10, 12, 10, 0, 15, 7, 0, 2, 4, 1, 4, 10, 7, 8, 2, 5, 10, 9, 5, 9, 10, 9, 2, 3, 0, 0, 12, 15, 11, 5, 0, 1, 3, 10, 13, 6, 1, 13, 0, 15, 5, 1, 8, 10, 14, 0, 15, 12, 8, 3, 8, 7, 4, 7, 13, 15, 1, 0, 4, 14, 11, 4>>)))
    @@
    ((("(Some(\"46985b8a6a9f3129fa9109552892477fc1640088fd5211149eb617cccaec6187\"), 6)"
        :> <<15, 11, 12, 11, 14, 8, 9, 3, 8, 4, 8, 3, 6, 4, 10, 6, 0, 7, 4, 6, 10, 10, 11, 15, 14, 12, 4, 15, 6, 11, 13, 12, 8, 3, 14, 6, 3, 0, 15, 2, 0, 11, 5, 7, 6, 13, 3, 6, 7, 0, 12, 14, 0, 6, 14, 6, 5, 12, 1, 5, 7, 6, 15, 3>>)
    @@
    ("(Some(\"46985b8a6a9f3129fa9109552892477fc1640088fd5211149eb617cccaec6187\"), 7)"
        :> <<0, 14, 14, 10, 6, 2, 2, 10, 3, 8, 3, 6, 3, 11, 0, 9, 2, 8, 9, 8, 0, 7, 4, 15, 1, 5, 13, 1, 13, 15, 7, 12, 9, 5, 3, 5, 10, 5, 9, 3, 7, 7, 3, 8, 3, 0, 5, 14, 9, 4, 2, 10, 10, 2, 9, 0, 7, 15, 10, 0, 5, 2, 7, 11>>))
    @@
    (("(Some(\"494b0bc4823cced568c212829db1ff2a34a0a2a1330977e8c9f33d58c2fd4874\"), 0)"
        :> <<14, 11, 15, 8, 15, 10, 13, 13, 7, 4, 6, 0, 9, 1, 11, 13, 5, 9, 6, 12, 8, 2, 1, 2, 7, 15, 11, 9, 9, 13, 1, 2, 4, 7, 5, 1, 8, 1, 0, 6, 12, 12, 1, 12, 4, 4, 11, 13, 12, 8, 7, 8, 12, 2, 12, 14, 10, 12, 2, 2, 13, 15, 11, 15>>)
    @@
    ("(Some(\"494b0bc4823cced568c212829db1ff2a34a0a2a1330977e8c9f33d58c2fd4874\"), 2)"
        :> <<9, 11, 2, 4, 10, 14, 0, 7, 6, 13, 1, 15, 2, 8, 7, 3, 13, 3, 6, 15, 11, 10, 7, 9, 8, 11, 15, 3, 10, 6, 2, 2, 7, 10, 0, 12, 15, 14, 8, 15, 5, 14, 9, 15, 13, 5, 9, 1, 3, 0, 5, 9, 12, 11, 2, 0, 6, 5, 8, 4, 10, 10, 1, 9>>)))))
    @@
    (((("(Some(\"494b0bc4823cced568c212829db1ff2a34a0a2a1330977e8c9f33d58c2fd4874\"), 3)"
        :> <<2, 15, 8, 5, 2, 3, 13, 14, 3, 8, 7, 11, 13, 5, 6, 5, 0, 4, 12, 13, 6, 7, 8, 8, 0, 4, 2, 15, 3, 0, 12, 13, 13, 7, 7, 3, 6, 7, 1, 13, 11, 0, 2, 1, 11, 10, 5, 15, 15, 14, 0, 12, 8, 1, 4, 9, 6, 9, 12, 3, 5, 5, 10, 8>>)
    @@
    (("(Some(\"494b0bc4823cced568c212829db1ff2a34a0a2a1330977e8c9f33d58c2fd4874\"), 4)"
        :> <<0, 10, 7, 9, 3, 7, 14, 5, 2, 12, 7, 9, 5, 2, 2, 14, 7, 15, 4, 13, 9, 6, 6, 1, 11, 2, 1, 14, 11, 3, 4, 1, 6, 2, 7, 8, 1, 7, 5, 1, 5, 15, 6, 0, 1, 11, 0, 15, 9, 11, 0, 8, 11, 10, 4, 5, 7, 3, 1, 8, 13, 7, 10, 3>>)
    @@
    ("(Some(\"494b0bc4823cced568c212829db1ff2a34a0a2a1330977e8c9f33d58c2fd4874\"), 5)"
        :> <<15, 0, 15, 7, 0, 3, 14, 10, 5, 14, 1, 12, 14, 12, 7, 15, 8, 10, 14, 2, 11, 14, 15, 15, 10, 6, 0, 11, 7, 5, 11, 1, 0, 7, 1, 6, 2, 1, 10, 4, 10, 11, 6, 11, 1, 12, 0, 0, 12, 4, 14, 2, 13, 3, 1, 13, 3, 9, 8, 5, 2, 6, 0, 3>>)))
    @@
    (("(Some(\"494b0bc4823cced568c212829db1ff2a34a0a2a1330977e8c9f33d58c2fd4874\"), 6)"
        :> <<6, 8, 0, 6, 9, 5, 1, 12, 4, 13, 11, 13, 6, 0, 2, 14, 12, 8, 3, 2, 7, 4, 14, 2, 14, 4, 8, 7, 15, 10, 11, 10, 9, 6, 13, 11, 11, 2, 14, 9, 13, 14, 0, 7, 4, 11, 12, 7, 2, 3, 9, 6, 6, 10, 14, 4, 9, 9, 5, 10, 5, 4, 0, 11>>)
    @@
    (("(Some(\"494b0bc4823cced568c212829db1ff2a34a0a2a1330977e8c9f33d58c2fd4874\"), 7)"
        :> <<12, 5, 15, 4, 1, 8, 12, 9, 6, 1, 1, 4, 5, 12, 0, 13, 1, 9, 10, 10, 10, 4, 7, 12, 6, 4, 5, 14, 13, 13, 1, 1, 13, 5, 8, 9, 9, 7, 11, 2, 0, 13, 15, 15, 13, 12, 15, 7, 7, 12, 13, 10, 5, 9, 13, 14, 8, 7, 3, 4, 8, 9, 10, 6>>)
    @@
    ("(Some(\"4ef56860fe2dee765a25232ef66d16dde5756737fd9497a317b41e3bdf10e43e\"), 0)"
        :> <<12, 8, 6, 0, 3, 12, 8, 2, 8, 14, 2, 11, 1, 3, 13, 6, 3, 3, 3, 7, 3, 12, 1, 14, 3, 1, 12, 2, 12, 13, 3, 11, 12, 3, 6, 3, 4, 5, 8, 4, 8, 6, 6, 8, 12, 6, 10, 8, 13, 3, 1, 10, 13, 8, 1, 10, 9, 12, 15, 8, 1, 5, 7, 11>>))))
    @@
    ((("(Some(\"4ef56860fe2dee765a25232ef66d16dde5756737fd9497a317b41e3bdf10e43e\"), 2)"
        :> <<0, 2, 14, 5, 3, 13, 8, 4, 9, 13, 10, 13, 0, 12, 5, 4, 0, 15, 10, 10, 7, 10, 15, 4, 7, 0, 10, 3, 1, 8, 10, 11, 10, 13, 15, 3, 15, 2, 5, 0, 6, 15, 4, 4, 14, 6, 12, 12, 10, 0, 5, 1, 10, 8, 5, 6, 10, 10, 9, 3, 15, 6, 3, 10>>)
    @@
    (("(Some(\"4ef56860fe2dee765a25232ef66d16dde5756737fd9497a317b41e3bdf10e43e\"), 3)"
        :> <<11, 5, 1, 4, 13, 13, 10, 7, 11, 4, 11, 15, 3, 12, 5, 9, 10, 0, 3, 2, 11, 14, 11, 9, 0, 3, 1, 7, 2, 3, 14, 13, 0, 2, 5, 15, 13, 10, 12, 15, 8, 9, 14, 10, 1, 4, 8, 1, 5, 7, 3, 7, 10, 14, 1, 1, 12, 6, 12, 2, 10, 15, 0, 14>>)
    @@
    ("(Some(\"4ef56860fe2dee765a25232ef66d16dde5756737fd9497a317b41e3bdf10e43e\"), 4)"
        :> <<6, 1, 4, 7, 8, 13, 9, 4, 3, 12, 14, 14, 4, 12, 0, 14, 10, 3, 14, 11, 6, 12, 4, 3, 13, 2, 1, 0, 1, 4, 8, 8, 0, 9, 14, 12, 3, 4, 15, 3, 2, 14, 1, 11, 9, 7, 12, 12, 9, 6, 2, 5, 9, 3, 14, 13, 5, 11, 3, 1, 10, 0, 9, 8>>)))
    @@
    ((("(Some(\"4ef56860fe2dee765a25232ef66d16dde5756737fd9497a317b41e3bdf10e43e\"), 5)"
        :> <<4, 6, 3, 9, 12, 4, 10, 6, 12, 5, 6, 5, 10, 12, 4, 7, 4, 5, 6, 12, 11, 14, 14, 10, 6, 10, 13, 11, 12, 10, 4, 11, 2, 3, 7, 8, 14, 4, 10, 2, 11, 4, 3, 0, 15, 14, 6, 0, 2, 8, 6, 10, 15, 11, 9, 9, 6, 9, 14, 2, 4, 5, 2, 11>>)
    @@
    ("(Some(\"4ef56860fe2dee765a25232ef66d16dde5756737fd9497a317b41e3bdf10e43e\"), 6)"
        :> <<8, 14, 12, 6, 8, 15, 10, 1, 11, 13, 10, 2, 15, 1, 2, 1, 10, 3, 6, 4, 15, 11, 1, 4, 10, 1, 2, 14, 8, 0, 2, 14, 9, 11, 9, 14, 2, 2, 11, 0, 10, 3, 8, 2, 5, 3, 11, 4, 10, 8, 5, 7, 15, 1, 8, 11, 9, 14, 9, 0, 12, 6, 10, 8>>))
    @@
    (("(Some(\"4ef56860fe2dee765a25232ef66d16dde5756737fd9497a317b41e3bdf10e43e\"), 7)"
        :> <<6, 15, 3, 9, 15, 7, 11, 4, 13, 8, 7, 10, 0, 1, 13, 6, 13, 8, 0, 7, 9, 3, 2, 2, 9, 11, 5, 8, 1, 12, 15, 6, 5, 6, 12, 2, 11, 14, 4, 5, 8, 4, 6, 11, 9, 6, 1, 3, 15, 13, 2, 13, 8, 3, 15, 3, 7, 1, 10, 12, 4, 0, 10, 9>>)
    @@
    ("(Some(\"533c4b1f3896b644158ddaef33d97e5a897594cfa4cdad24fd4ea9fb7703dac3\"), 0)"
        :> <<1, 13, 7, 7, 12, 0, 5, 10, 12, 4, 2, 4, 12, 6, 3, 11, 15, 2, 9, 4, 11, 1, 0, 6, 6, 15, 1, 12, 11, 12, 1, 6, 9, 14, 2, 8, 13, 6, 2, 6, 14, 6, 8, 9, 15, 6, 9, 5, 13, 5, 11, 0, 10, 9, 8, 3, 10, 10, 3, 4, 7, 14, 7, 9>>))))))
    @@
    ((((("(Some(\"533c4b1f3896b644158ddaef33d97e5a897594cfa4cdad24fd4ea9fb7703dac3\"), 2)"
        :> <<0, 9, 3, 6, 0, 5, 2, 0, 0, 10, 6, 13, 10, 6, 10, 1, 14, 11, 10, 13, 0, 4, 3, 0, 11, 12, 3, 14, 7, 13, 9, 10, 0, 11, 12, 5, 13, 9, 5, 5, 14, 12, 12, 14, 12, 5, 6, 1, 9, 13, 5, 7, 3, 0, 12, 1, 14, 9, 13, 3, 2, 6, 1, 6>>)
    @@
    (("(Some(\"533c4b1f3896b644158ddaef33d97e5a897594cfa4cdad24fd4ea9fb7703dac3\"), 3)"
        :> <<11, 13, 0, 2, 4, 15, 0, 9, 1, 0, 3, 8, 7, 11, 5, 15, 5, 8, 0, 15, 2, 5, 12, 15, 9, 3, 0, 12, 1, 2, 14, 12, 11, 14, 10, 0, 12, 2, 4, 4, 4, 11, 12, 10, 14, 0, 12, 13, 5, 2, 10, 2, 0, 6, 10, 8, 2, 2, 13, 12, 15, 7, 4, 14>>)
    @@
    ("(Some(\"533c4b1f3896b644158ddaef33d97e5a897594cfa4cdad24fd4ea9fb7703dac3\"), 4)"
        :> <<5, 7, 6, 8, 5, 2, 13, 9, 7, 0, 7, 6, 0, 0, 5, 3, 14, 1, 12, 7, 4, 14, 7, 5, 9, 14, 5, 7, 3, 12, 2, 9, 6, 13, 5, 1, 10, 15, 5, 10, 12, 2, 6, 6, 2, 13, 7, 4, 0, 14, 9, 13, 11, 14, 7, 14, 11, 8, 6, 4, 12, 1, 14, 8>>)))
    @@
    (("(Some(\"533c4b1f3896b644158ddaef33d97e5a897594cfa4cdad24fd4ea9fb7703dac3\"), 5)"
        :> <<15, 9, 10, 4, 4, 7, 14, 3, 9, 1, 5, 12, 1, 10, 2, 15, 1, 6, 15, 5, 5, 9, 0, 8, 8, 7, 3, 4, 0, 5, 13, 5, 9, 8, 4, 13, 11, 12, 1, 7, 0, 15, 4, 12, 4, 12, 15, 6, 3, 1, 9, 8, 3, 10, 4, 4, 14, 1, 10, 6, 5, 11, 10, 12>>)
    @@
    (("(Some(\"533c4b1f3896b644158ddaef33d97e5a897594cfa4cdad24fd4ea9fb7703dac3\"), 6)"
        :> <<6, 10, 15, 13, 15, 13, 3, 5, 11, 6, 2, 14, 5, 4, 0, 10, 8, 14, 14, 5, 6, 1, 12, 15, 3, 10, 13, 12, 4, 7, 11, 8, 9, 14, 11, 6, 15, 2, 13, 13, 12, 3, 2, 6, 4, 0, 7, 7, 13, 14, 2, 14, 7, 6, 4, 3, 4, 11, 8, 2, 15, 4, 6, 6>>)
    @@
    ("(Some(\"533c4b1f3896b644158ddaef33d97e5a897594cfa4cdad24fd4ea9fb7703dac3\"), 7)"
        :> <<11, 7, 11, 15, 10, 11, 14, 9, 10, 0, 0, 8, 3, 12, 14, 0, 6, 4, 3, 10, 6, 8, 11, 7, 14, 5, 15, 10, 8, 10, 15, 13, 3, 13, 5, 11, 6, 6, 11, 8, 5, 5, 3, 12, 15, 15, 1, 4, 6, 5, 10, 12, 15, 5, 3, 4, 5, 2, 6, 4, 15, 5, 0, 3>>))))
    @@
    ((("(Some(\"5690453edd3212ba5a2dd2191a81ef0363338de177a5f5f2a022b40b872d2e4a\"), 0)"
        :> <<8, 1, 0, 12, 14, 7, 9, 9, 7, 1, 13, 11, 15, 4, 14, 0, 10, 6, 5, 0, 15, 9, 4, 2, 1, 13, 6, 11, 10, 5, 13, 12, 15, 5, 11, 2, 10, 3, 7, 5, 3, 3, 6, 13, 14, 7, 5, 5, 3, 0, 7, 3, 0, 4, 2, 2, 13, 7, 14, 10, 0, 5, 11, 12>>)
    @@
    (("(Some(\"5690453edd3212ba5a2dd2191a81ef0363338de177a5f5f2a022b40b872d2e4a\"), 0)0af7ba66f9a27ed0e229221aada0cc88d5d6fd58f46f72eb626bd37b8e94efc8"
        :> <<9, 5, 13, 2, 13, 6, 12, 4, 2, 6, 8, 15, 3, 13, 15, 5, 12, 4, 12, 12, 15, 3, 5, 8, 9, 8, 5, 15, 14, 6, 4, 6, 11, 4, 13, 11, 8, 8, 0, 6, 0, 3, 15, 1, 8, 13, 7, 1, 14, 4, 13, 5, 11, 11, 13, 0, 13, 7, 12, 11, 0, 11, 2, 12>>)
    @@
    ("(Some(\"5690453edd3212ba5a2dd2191a81ef0363338de177a5f5f2a022b40b872d2e4a\"), 2)"
        :> <<5, 15, 3, 13, 8, 3, 8, 4, 14, 3, 11, 14, 14, 11, 2, 13, 1, 5, 0, 2, 10, 8, 1, 3, 14, 3, 2, 2, 9, 4, 1, 15, 4, 7, 12, 13, 3, 9, 3, 10, 3, 15, 4, 4, 7, 6, 7, 15, 1, 5, 15, 15, 15, 12, 4, 8, 2, 3, 0, 6, 4, 6, 1, 5>>)))
    @@
    ((("(Some(\"5690453edd3212ba5a2dd2191a81ef0363338de177a5f5f2a022b40b872d2e4a\"), 2)0af7ba66f9a27ed0e229221aada0cc88d5d6fd58f46f72eb626bd37b8e94efc8"
        :> <<1, 5, 14, 9, 11, 13, 0, 5, 8, 13, 1, 10, 12, 10, 11, 15, 4, 4, 5, 12, 12, 14, 15, 7, 14, 15, 12, 10, 7, 11, 11, 13, 13, 8, 15, 8, 1, 3, 10, 9, 14, 14, 15, 9, 12, 4, 8, 9, 8, 15, 7, 11, 14, 15, 2, 0, 11, 3, 1, 7, 6, 2, 7, 10>>)
    @@
    ("(Some(\"5690453edd3212ba5a2dd2191a81ef0363338de177a5f5f2a022b40b872d2e4a\"), 3)"
        :> <<14, 14, 2, 11, 14, 15, 5, 11, 4, 9, 4, 6, 12, 0, 14, 13, 4, 14, 15, 10, 8, 2, 4, 14, 6, 1, 11, 7, 6, 4, 5, 12, 0, 7, 2, 15, 11, 4, 9, 4, 13, 7, 2, 5, 11, 5, 1, 5, 5, 1, 1, 11, 6, 5, 14, 0, 14, 11, 13, 6, 4, 10, 4, 4>>))
    @@
    (("(Some(\"5690453edd3212ba5a2dd2191a81ef0363338de177a5f5f2a022b40b872d2e4a\"), 3)0af7ba66f9a27ed0e229221aada0cc88d5d6fd58f46f72eb626bd37b8e94efc8"
        :> <<14, 10, 9, 0, 15, 15, 11, 11, 9, 6, 0, 2, 10, 4, 14, 1, 8, 9, 2, 11, 4, 15, 0, 6, 10, 9, 1, 14, 9, 0, 3, 2, 11, 10, 4, 5, 14, 12, 13, 2, 13, 6, 0, 6, 9, 3, 4, 15, 12, 12, 4, 0, 3, 11, 9, 3, 13, 9, 9, 15, 0, 14, 13, 7>>)
    @@
    ("(Some(\"5690453edd3212ba5a2dd2191a81ef0363338de177a5f5f2a022b40b872d2e4a\"), 4)"
        :> <<14, 7, 11, 10, 5, 11, 15, 14, 15, 10, 0, 11, 3, 15, 0, 2, 14, 4, 14, 7, 11, 1, 6, 6, 6, 14, 1, 15, 4, 8, 7, 9, 5, 5, 8, 13, 4, 15, 12, 7, 10, 12, 15, 7, 2, 15, 3, 11, 15, 11, 2, 8, 11, 1, 11, 15, 9, 8, 1, 11, 0, 0, 15, 7>>)))))
    @@
    (((("(Some(\"5690453edd3212ba5a2dd2191a81ef0363338de177a5f5f2a022b40b872d2e4a\"), 4)0af7ba66f9a27ed0e229221aada0cc88d5d6fd58f46f72eb626bd37b8e94efc8"
        :> <<14, 1, 7, 15, 12, 12, 8, 5, 1, 13, 0, 2, 5, 1, 7, 5, 12, 2, 13, 5, 0, 10, 2, 12, 7, 14, 4, 4, 1, 8, 6, 13, 7, 5, 7, 6, 8, 15, 6, 2, 10, 0, 9, 1, 4, 6, 12, 4, 5, 11, 9, 5, 1, 3, 8, 8, 7, 6, 12, 14, 13, 5, 13, 10>>)
    @@
    (("(Some(\"5690453edd3212ba5a2dd2191a81ef0363338de177a5f5f2a022b40b872d2e4a\"), 5)"
        :> <<6, 9, 7, 8, 11, 11, 4, 5, 5, 15, 15, 6, 3, 9, 10, 10, 7, 5, 13, 13, 12, 0, 2, 9, 8, 13, 11, 0, 3, 6, 1, 13, 10, 0, 3, 0, 8, 11, 1, 5, 13, 12, 9, 15, 3, 0, 11, 15, 6, 11, 15, 11, 3, 3, 4, 6, 12, 5, 0, 14, 13, 7, 0, 1>>)
    @@
    ("(Some(\"5690453edd3212ba5a2dd2191a81ef0363338de177a5f5f2a022b40b872d2e4a\"), 5)0af7ba66f9a27ed0e229221aada0cc88d5d6fd58f46f72eb626bd37b8e94efc8"
        :> <<4, 13, 2, 4, 15, 12, 1, 7, 2, 2, 13, 5, 3, 15, 12, 7, 0, 9, 2, 10, 15, 0, 15, 11, 11, 15, 6, 5, 6, 5, 14, 9, 0, 8, 0, 4, 15, 3, 1, 2, 1, 0, 9, 1, 0, 15, 9, 4, 1, 0, 11, 3, 14, 11, 2, 14, 9, 13, 3, 13, 11, 11, 8, 7>>)))
    @@
    (("(Some(\"5690453edd3212ba5a2dd2191a81ef0363338de177a5f5f2a022b40b872d2e4a\"), 6)"
        :> <<7, 9, 10, 2, 2, 2, 6, 7, 14, 4, 0, 9, 6, 12, 8, 11, 5, 12, 11, 9, 12, 15, 13, 2, 11, 0, 10, 2, 0, 13, 11, 8, 10, 3, 4, 10, 14, 10, 2, 13, 1, 3, 2, 8, 6, 8, 0, 1, 5, 7, 15, 15, 9, 7, 15, 13, 12, 11, 10, 14, 1, 2, 13, 1>>)
    @@
    (("(Some(\"5690453edd3212ba5a2dd2191a81ef0363338de177a5f5f2a022b40b872d2e4a\"), 6)0af7ba66f9a27ed0e229221aada0cc88d5d6fd58f46f72eb626bd37b8e94efc8"
        :> <<14, 8, 0, 1, 9, 11, 10, 2, 15, 6, 9, 6, 8, 6, 11, 2, 0, 2, 9, 5, 10, 2, 6, 7, 7, 4, 15, 6, 0, 11, 11, 14, 2, 4, 4, 7, 5, 7, 3, 15, 3, 10, 3, 0, 12, 1, 8, 0, 14, 5, 13, 15, 14, 9, 9, 13, 11, 8, 15, 14, 11, 15, 14, 1>>)
    @@
    ("(Some(\"5690453edd3212ba5a2dd2191a81ef0363338de177a5f5f2a022b40b872d2e4a\"), 7)"
        :> <<3, 0, 7, 2, 9, 8, 5, 5, 3, 1, 6, 14, 4, 2, 6, 0, 1, 11, 14, 12, 3, 2, 1, 0, 1, 15, 14, 0, 4, 4, 2, 5, 6, 3, 6, 13, 3, 6, 7, 0, 4, 1, 4, 12, 14, 1, 9, 9, 3, 8, 11, 10, 0, 4, 9, 11, 9, 2, 2, 10, 7, 8, 9, 6>>))))
    @@
    ((("(Some(\"5690453edd3212ba5a2dd2191a81ef0363338de177a5f5f2a022b40b872d2e4a\"), 7)0af7ba66f9a27ed0e229221aada0cc88d5d6fd58f46f72eb626bd37b8e94efc8"
        :> <<1, 8, 13, 8, 7, 8, 4, 11, 0, 5, 5, 4, 8, 7, 8, 8, 1, 12, 6, 2, 3, 9, 5, 13, 8, 3, 15, 0, 13, 12, 1, 3, 5, 7, 10, 3, 5, 0, 3, 10, 7, 15, 4, 10, 12, 4, 1, 10, 15, 13, 4, 8, 3, 11, 7, 14, 2, 12, 6, 9, 13, 0, 12, 5>>)
    @@
    (("(Some(\"5c0f8fc7a70dd47192885bb34ce3d2c280cae8a4cf2d09d67339cf749a0da133\"), 0)"
        :> <<14, 8, 7, 10, 5, 3, 5, 10, 14, 14, 5, 5, 5, 15, 7, 9, 5, 1, 8, 6, 4, 3, 1, 9, 4, 15, 1, 10, 10, 0, 15, 7, 12, 9, 15, 7, 14, 0, 14, 14, 1, 0, 13, 3, 15, 3, 7, 10, 15, 10, 14, 5, 2, 14, 3, 0, 12, 4, 13, 11, 13, 0, 1, 14>>)
    @@
    ("(Some(\"5c0f8fc7a70dd47192885bb34ce3d2c280cae8a4cf2d09d67339cf749a0da133\"), 2)"
        :> <<2, 4, 7, 9, 12, 0, 14, 1, 8, 8, 7, 1, 7, 3, 13, 1, 8, 15, 13, 1, 11, 3, 2, 5, 10, 1, 4, 11, 5, 12, 1, 3, 7, 0, 2, 1, 6, 11, 7, 1, 2, 8, 6, 1, 12, 2, 15, 6, 3, 14, 7, 1, 11, 5, 4, 8, 13, 4, 10, 4, 3, 10, 7, 14>>)))
    @@
    ((("(Some(\"5c0f8fc7a70dd47192885bb34ce3d2c280cae8a4cf2d09d67339cf749a0da133\"), 3)"
        :> <<0, 11, 8, 1, 1, 10, 5, 7, 6, 3, 13, 14, 3, 10, 12, 8, 10, 7, 4, 11, 4, 9, 4, 7, 12, 9, 9, 11, 3, 10, 14, 0, 12, 14, 14, 13, 3, 7, 15, 9, 6, 13, 12, 8, 10, 8, 7, 7, 9, 10, 8, 0, 11, 1, 7, 7, 14, 2, 7, 0, 11, 2, 12, 4>>)
    @@
    ("(Some(\"5c0f8fc7a70dd47192885bb34ce3d2c280cae8a4cf2d09d67339cf749a0da133\"), 4)"
        :> <<8, 0, 8, 7, 12, 9, 11, 2, 10, 5, 3, 1, 15, 9, 1, 4, 1, 9, 13, 7, 8, 15, 4, 13, 0, 13, 2, 9, 3, 11, 11, 2, 9, 1, 2, 3, 9, 15, 13, 2, 9, 7, 12, 5, 0, 5, 0, 3, 12, 3, 5, 14, 13, 13, 5, 6, 13, 4, 14, 11, 12, 13, 1, 4>>))
    @@
    (("(Some(\"5c0f8fc7a70dd47192885bb34ce3d2c280cae8a4cf2d09d67339cf749a0da133\"), 5)"
        :> <<4, 7, 5, 0, 5, 8, 7, 1, 10, 9, 0, 14, 9, 14, 10, 3, 9, 10, 14, 15, 15, 11, 0, 12, 9, 13, 13, 10, 10, 5, 13, 6, 3, 13, 7, 9, 4, 11, 12, 5, 2, 10, 13, 6, 9, 1, 5, 15, 2, 9, 3, 14, 5, 1, 2, 13, 11, 1, 9, 3, 0, 7, 15, 13>>)
    @@
    ("(Some(\"5c0f8fc7a70dd47192885bb34ce3d2c280cae8a4cf2d09d67339cf749a0da133\"), 6)"
        :> <<12, 10, 12, 13, 2, 11, 13, 4, 0, 10, 15, 14, 5, 14, 13, 11, 9, 0, 6, 3, 6, 10, 13, 4, 14, 4, 11, 2, 11, 8, 10, 10, 7, 2, 13, 13, 5, 14, 6, 7, 2, 13, 3, 8, 2, 1, 15, 7, 13, 2, 14, 3, 5, 1, 9, 2, 1, 10, 4, 5, 3, 9, 2, 13>>)))))))
    @@
    (((((("(Some(\"5c0f8fc7a70dd47192885bb34ce3d2c280cae8a4cf2d09d67339cf749a0da133\"), 7)"
        :> <<9, 14, 4, 1, 11, 13, 9, 3, 14, 9, 15, 9, 7, 2, 6, 5, 15, 6, 15, 1, 14, 9, 3, 9, 12, 12, 8, 11, 11, 14, 12, 10, 7, 9, 4, 3, 13, 0, 15, 0, 6, 7, 1, 7, 1, 1, 14, 3, 11, 14, 12, 1, 2, 8, 14, 1, 8, 2, 15, 15, 1, 11, 3, 12>>)
    @@
    (("(Some(\"5d64dd833ed5ef0b2f76646849738719ccca6823cc613f0290b2eb7e18b7dcc7\"), 0)"
        :> <<12, 5, 8, 4, 13, 2, 12, 8, 6, 12, 1, 1, 15, 9, 14, 3, 7, 8, 10, 9, 12, 1, 8, 11, 3, 10, 2, 9, 13, 0, 5, 12, 5, 5, 3, 6, 2, 12, 11, 8, 14, 4, 4, 3, 10, 2, 5, 9, 13, 13, 6, 10, 5, 5, 2, 2, 0, 4, 6, 9, 14, 4, 0, 0>>)
    @@
    ("(Some(\"5d64dd833ed5ef0b2f76646849738719ccca6823cc613f0290b2eb7e18b7dcc7\"), 2)"
        :> <<7, 4, 1, 4, 6, 0, 5, 14, 4, 2, 13, 5, 15, 6, 4, 1, 8, 4, 3, 11, 11, 7, 14, 3, 3, 11, 3, 14, 10, 7, 12, 11, 2, 1, 13, 9, 6, 4, 6, 9, 1, 0, 14, 10, 15, 12, 13, 2, 0, 13, 9, 9, 13, 15, 6, 3, 14, 12, 5, 1, 3, 15, 10, 6>>)))
    @@
    (("(Some(\"5d64dd833ed5ef0b2f76646849738719ccca6823cc613f0290b2eb7e18b7dcc7\"), 3)"
        :> <<12, 13, 0, 5, 12, 11, 11, 12, 8, 6, 7, 9, 13, 8, 13, 8, 14, 6, 0, 0, 5, 4, 7, 13, 1, 14, 8, 12, 2, 10, 7, 3, 6, 11, 6, 4, 4, 0, 8, 7, 10, 6, 10, 7, 5, 5, 14, 2, 1, 11, 15, 15, 10, 2, 0, 3, 1, 10, 13, 5, 7, 15, 8, 11>>)
    @@
    (("(Some(\"5d64dd833ed5ef0b2f76646849738719ccca6823cc613f0290b2eb7e18b7dcc7\"), 4)"
        :> <<2, 14, 8, 15, 0, 3, 9, 1, 3, 6, 7, 4, 6, 13, 12, 5, 15, 7, 7, 4, 4, 4, 4, 2, 9, 14, 1, 1, 11, 13, 11, 5, 1, 15, 1, 11, 12, 11, 3, 4, 13, 1, 10, 8, 2, 4, 1, 1, 15, 10, 6, 15, 12, 11, 12, 2, 3, 2, 12, 0, 2, 15, 11, 8>>)
    @@
    ("(Some(\"5d64dd833ed5ef0b2f76646849738719ccca6823cc613f0290b2eb7e18b7dcc7\"), 5)"
        :> <<14, 3, 11, 7, 14, 6, 10, 6, 9, 13, 10, 7, 3, 9, 15, 2, 13, 1, 12, 1, 13, 2, 9, 0, 8, 4, 8, 1, 11, 10, 0, 7, 11, 4, 5, 12, 2, 12, 8, 13, 0, 13, 6, 1, 15, 7, 9, 5, 2, 7, 5, 4, 14, 4, 9, 15, 3, 7, 8, 4, 0, 11, 4, 12>>))))
    @@
    ((("(Some(\"5d64dd833ed5ef0b2f76646849738719ccca6823cc613f0290b2eb7e18b7dcc7\"), 6)"
        :> <<4, 7, 1, 8, 10, 14, 13, 9, 5, 10, 7, 9, 5, 10, 4, 0, 10, 3, 3, 5, 10, 1, 9, 14, 1, 5, 4, 0, 11, 12, 1, 3, 1, 13, 1, 13, 3, 4, 12, 1, 8, 8, 15, 4, 0, 5, 14, 7, 14, 0, 9, 12, 11, 14, 8, 8, 4, 9, 11, 13, 8, 4, 11, 8>>)
    @@
    (("(Some(\"5d64dd833ed5ef0b2f76646849738719ccca6823cc613f0290b2eb7e18b7dcc7\"), 7)"
        :> <<14, 1, 12, 4, 7, 11, 3, 8, 2, 13, 15, 12, 7, 10, 12, 4, 5, 13, 10, 14, 1, 5, 5, 15, 1, 3, 8, 14, 15, 1, 3, 11, 13, 11, 14, 10, 15, 6, 11, 6, 6, 11, 2, 9, 6, 2, 0, 2, 13, 11, 5, 4, 12, 5, 4, 5, 10, 6, 12, 15, 10, 12, 1, 2>>)
    @@
    ("(Some(\"6164e20ac3de15cbe6873d15338ae39392784d729dee7a4530ca5135588ce24e\"), 0)"
        :> <<8, 12, 9, 15, 8, 5, 7, 0, 4, 3, 0, 4, 12, 4, 1, 4, 2, 6, 9, 1, 2, 11, 2, 0, 12, 5, 6, 9, 9, 15, 15, 5, 12, 12, 4, 1, 2, 5, 10, 11, 8, 9, 12, 14, 13, 1, 2, 1, 4, 15, 10, 10, 2, 1, 4, 4, 4, 9, 15, 3, 9, 0, 8, 14>>)))
    @@
    ((("(Some(\"6164e20ac3de15cbe6873d15338ae39392784d729dee7a4530ca5135588ce24e\"), 0)0af7ba66f9a27ed0e229221aada0cc88d5d6fd58f46f72eb626bd37b8e94efc8"
        :> <<5, 8, 9, 8, 11, 14, 3, 14, 15, 5, 9, 4, 2, 9, 2, 6, 0, 6, 10, 12, 6, 15, 5, 14, 13, 13, 3, 13, 15, 1, 3, 8, 13, 7, 6, 4, 10, 1, 2, 8, 8, 5, 5, 9, 13, 1, 11, 10, 14, 8, 0, 11, 6, 14, 6, 11, 2, 14, 13, 5, 14, 15, 15, 3>>)
    @@
    ("(Some(\"6164e20ac3de15cbe6873d15338ae39392784d729dee7a4530ca5135588ce24e\"), 0)0af7ba66f9a27ed0e229221aada0cc88d5d6fd58f46f72eb626bd37b8e94efc80af7ba66f9a27ed0e229221aada0cc88d5d6fd58f46f72eb626bd37b8e94efc8"
        :> <<2, 11, 1, 7, 1, 3, 12, 0, 0, 3, 14, 1, 10, 3, 11, 7, 0, 8, 5, 11, 8, 9, 5, 3, 1, 0, 0, 4, 7, 4, 11, 4, 5, 10, 15, 4, 11, 6, 15, 5, 14, 0, 2, 1, 9, 1, 3, 12, 2, 0, 14, 6, 3, 3, 14, 6, 3, 13, 12, 4, 6, 9, 2, 2>>))
    @@
    (("(Some(\"6164e20ac3de15cbe6873d15338ae39392784d729dee7a4530ca5135588ce24e\"), 0)0af7ba66f9a27ed0e229221aada0cc88d5d6fd58f46f72eb626bd37b8e94efc80af7ba66f9a27ed0e229221aada0cc88d5d6fd58f46f72eb626bd37b8e94efc80af7ba66f9a27ed0e229221aada0cc88d5d6fd58f46f72eb626bd37b8e94efc8"
        :> <<0, 6, 10, 12, 5, 11, 1, 3, 4, 7, 7, 6, 6, 0, 8, 15, 15, 6, 0, 10, 8, 3, 7, 13, 9, 8, 11, 1, 4, 5, 11, 8, 10, 0, 0, 10, 11, 11, 0, 0, 15, 8, 12, 13, 7, 12, 14, 12, 14, 5, 15, 7, 7, 11, 3, 8, 15, 1, 5, 3, 2, 0, 5, 11>>)
    @@
    ("(Some(\"6164e20ac3de15cbe6873d15338ae39392784d729dee7a4530ca5135588ce24e\"), 0)0af7ba66f9a27ed0e229221aada0cc88d5d6fd58f46f72eb626bd37b8e94efc80af7ba66f9a27ed0e229221aada0cc88d5d6fd58f46f72eb626bd37b8e94efc8140fc148a380d69b8753d296355d450a4c606dfa652482747ab694cd6ac23972"
        :> <<10, 15, 11, 0, 2, 12, 8, 4, 1, 12, 12, 7, 13, 5, 1, 3, 9, 15, 7, 1, 4, 7, 10, 10, 13, 0, 12, 14, 8, 4, 8, 8, 3, 2, 3, 0, 5, 1, 15, 9, 5, 5, 8, 2, 0, 2, 13, 4, 7, 7, 3, 1, 7, 1, 7, 8, 10, 3, 8, 0, 4, 15, 15, 2>>)))))
    @@
    (((("(Some(\"6164e20ac3de15cbe6873d15338ae39392784d729dee7a4530ca5135588ce24e\"), 0)0af7ba66f9a27ed0e229221aada0cc88d5d6fd58f46f72eb626bd37b8e94efc80f953d12a939fe4ef354fff77564841627136a6bf3667b256c4a5cb6768788da0af7ba66f9a27ed0e229221aada0cc88d5d6fd58f46f72eb626bd37b8e94efc8"
        :> <<15, 4, 6, 0, 9, 12, 7, 5, 4, 2, 13, 6, 0, 10, 2, 7, 15, 15, 2, 15, 0, 2, 5, 11, 2, 9, 6, 2, 8, 2, 1, 15, 12, 1, 4, 2, 2, 6, 6, 3, 10, 7, 1, 1, 7, 1, 8, 13, 3, 2, 11, 15, 4, 4, 15, 0, 13, 10, 7, 0, 6, 8, 7, 2>>)
    @@
    (("(Some(\"6164e20ac3de15cbe6873d15338ae39392784d729dee7a4530ca5135588ce24e\"), 0)0af7ba66f9a27ed0e229221aada0cc88d5d6fd58f46f72eb626bd37b8e94efc80f953d12a939fe4ef354fff77564841627136a6bf3667b256c4a5cb6768788da140fc148a380d69b8753d296355d450a4c606dfa652482747ab694cd6ac23972"
        :> <<1, 12, 12, 13, 8, 10, 7, 10, 0, 11, 2, 4, 2, 8, 0, 8, 12, 6, 14, 8, 2, 3, 5, 15, 0, 1, 6, 8, 7, 12, 9, 5, 11, 5, 6, 9, 6, 4, 10, 1, 8, 12, 8, 8, 5, 7, 10, 6, 3, 8, 12, 8, 5, 2, 2, 14, 14, 13, 6, 6, 8, 5, 1, 2>>)
    @@
    ("(Some(\"6164e20ac3de15cbe6873d15338ae39392784d729dee7a4530ca5135588ce24e\"), 0)0af7ba66f9a27ed0e229221aada0cc88d5d6fd58f46f72eb626bd37b8e94efc8140fc148a380d69b8753d296355d450a4c606dfa652482747ab694cd6ac23972"
        :> <<11, 12, 11, 15, 0, 9, 10, 6, 2, 11, 5, 8, 0, 4, 10, 11, 8, 7, 6, 9, 11, 2, 8, 13, 6, 6, 0, 1, 8, 10, 1, 11, 3, 3, 7, 10, 10, 13, 3, 0, 14, 7, 7, 9, 11, 12, 8, 13, 3, 3, 2, 4, 0, 11, 15, 14, 5, 15, 12, 12, 8, 7, 2, 11>>)))
    @@
    (("(Some(\"6164e20ac3de15cbe6873d15338ae39392784d729dee7a4530ca5135588ce24e\"), 0)0af7ba66f9a27ed0e229221aada0cc88d5d6fd58f46f72eb626bd37b8e94efc8140fc148a380d69b8753d296355d450a4c606dfa652482747ab694cd6ac239720af7ba66f9a27ed0e229221aada0cc88d5d6fd58f46f72eb626bd37b8e94efc8"
        :> <<8, 14, 11, 0, 11, 15, 3, 0, 10, 4, 13, 14, 4, 1, 5, 15, 8, 4, 7, 14, 15, 8, 8, 2, 0, 6, 12, 11, 11, 1, 9, 11, 2, 6, 5, 3, 13, 8, 9, 15, 0, 1, 13, 5, 12, 10, 7, 3, 2, 9, 2, 1, 13, 7, 14, 15, 11, 13, 3, 4, 9, 11, 7, 3>>)
    @@
    (("(Some(\"6164e20ac3de15cbe6873d15338ae39392784d729dee7a4530ca5135588ce24e\"), 0)0af7ba66f9a27ed0e229221aada0cc88d5d6fd58f46f72eb626bd37b8e94efc8140fc148a380d69b8753d296355d450a4c606dfa652482747ab694cd6ac23972140fc148a380d69b8753d296355d450a4c606dfa652482747ab694cd6ac23972"
        :> <<11, 9, 1, 2, 4, 9, 6, 15, 2, 6, 7, 13, 9, 13, 11, 0, 14, 6, 14, 7, 10, 15, 5, 13, 15, 12, 2, 3, 10, 11, 4, 14, 10, 15, 11, 4, 4, 11, 12, 11, 10, 15, 8, 7, 0, 2, 4, 15, 4, 4, 2, 5, 1, 10, 10, 0, 6, 5, 6, 13, 11, 12, 6, 7>>)
    @@
    ("(Some(\"6164e20ac3de15cbe6873d15338ae39392784d729dee7a4530ca5135588ce24e\"), 0)0af7ba66f9a27ed0e229221aada0cc88d5d6fd58f46f72eb626bd37b8e94efc87d3c95f98bd2b66af7c1d3a16cad13e01562539e02afc9695b86a5416092645f0af7ba66f9a27ed0e229221aada0cc88d5d6fd58f46f72eb626bd37b8e94efc8"
        :> <<2, 14, 4, 14, 4, 1, 6, 1, 6, 8, 3, 12, 7, 1, 3, 5, 1, 9, 5, 13, 3, 6, 13, 3, 14, 7, 13, 8, 11, 3, 12, 14, 12, 0, 2, 13, 13, 13, 10, 6, 11, 2, 12, 5, 6, 5, 1, 0, 4, 10, 5, 3, 13, 11, 2, 13, 13, 5, 4, 6, 14, 11, 5, 15>>))))
    @@
    ((("(Some(\"6164e20ac3de15cbe6873d15338ae39392784d729dee7a4530ca5135588ce24e\"), 0)0af7ba66f9a27ed0e229221aada0cc88d5d6fd58f46f72eb626bd37b8e94efc87d3c95f98bd2b66af7c1d3a16cad13e01562539e02afc9695b86a5416092645f140fc148a380d69b8753d296355d450a4c606dfa652482747ab694cd6ac23972"
        :> <<9, 3, 15, 5, 10, 9, 11, 12, 3, 10, 9, 11, 10, 15, 11, 7, 14, 2, 6, 11, 2, 6, 0, 14, 7, 2, 11, 3, 14, 0, 2, 13, 0, 15, 0, 14, 12, 0, 12, 5, 14, 15, 10, 15, 2, 3, 7, 8, 1, 13, 7, 5, 8, 6, 13, 12, 12, 4, 13, 12, 9, 15, 6, 15>>)
    @@
    (("(Some(\"6164e20ac3de15cbe6873d15338ae39392784d729dee7a4530ca5135588ce24e\"), 0)0f953d12a939fe4ef354fff77564841627136a6bf3667b256c4a5cb6768788da0af7ba66f9a27ed0e229221aada0cc88d5d6fd58f46f72eb626bd37b8e94efc8"
        :> <<9, 9, 10, 13, 5, 6, 14, 0, 15, 8, 11, 4, 15, 7, 11, 5, 5, 4, 13, 1, 1, 7, 0, 14, 11, 1, 8, 10, 12, 3, 2, 10, 3, 12, 1, 15, 5, 10, 10, 5, 1, 1, 8, 11, 12, 8, 11, 1, 5, 3, 12, 6, 5, 7, 11, 0, 12, 11, 2, 13, 7, 3, 3, 6>>)
    @@
    ("(Some(\"6164e20ac3de15cbe6873d15338ae39392784d729dee7a4530ca5135588ce24e\"), 0)0f953d12a939fe4ef354fff77564841627136a6bf3667b256c4a5cb6768788da0af7ba66f9a27ed0e229221aada0cc88d5d6fd58f46f72eb626bd37b8e94efc80af7ba66f9a27ed0e229221aada0cc88d5d6fd58f46f72eb626bd37b8e94efc8"
        :> <<13, 2, 14, 13, 15, 9, 3, 7, 12, 1, 4, 6, 15, 0, 5, 11, 7, 4, 3, 9, 3, 13, 2, 4, 0, 1, 6, 2, 9, 13, 12, 0, 0, 13, 2, 10, 9, 2, 11, 3, 15, 14, 8, 15, 5, 3, 3, 9, 10, 2, 6, 8, 6, 9, 14, 3, 13, 6, 7, 7, 4, 0, 1, 3>>)))
    @@
    ((("(Some(\"6164e20ac3de15cbe6873d15338ae39392784d729dee7a4530ca5135588ce24e\"), 0)0f953d12a939fe4ef354fff77564841627136a6bf3667b256c4a5cb6768788da0af7ba66f9a27ed0e229221aada0cc88d5d6fd58f46f72eb626bd37b8e94efc8140fc148a380d69b8753d296355d450a4c606dfa652482747ab694cd6ac23972"
        :> <<12, 10, 1, 0, 3, 10, 9, 1, 13, 15, 14, 5, 2, 2, 6, 11, 4, 0, 8, 1, 13, 6, 8, 6, 7, 3, 4, 3, 13, 13, 12, 6, 15, 14, 13, 15, 5, 2, 4, 8, 8, 12, 0, 9, 7, 1, 1, 12, 2, 4, 7, 13, 14, 11, 4, 1, 8, 11, 14, 4, 7, 2, 4, 12>>)
    @@
    ("(Some(\"6164e20ac3de15cbe6873d15338ae39392784d729dee7a4530ca5135588ce24e\"), 0)0f953d12a939fe4ef354fff77564841627136a6bf3667b256c4a5cb6768788da0f953d12a939fe4ef354fff77564841627136a6bf3667b256c4a5cb6768788da0af7ba66f9a27ed0e229221aada0cc88d5d6fd58f46f72eb626bd37b8e94efc8"
        :> <<0, 9, 11, 14, 1, 15, 1, 6, 8, 5, 0, 10, 11, 9, 0, 1, 9, 10, 4, 2, 5, 10, 6, 0, 7, 9, 10, 15, 13, 6, 0, 15, 15, 8, 5, 5, 12, 5, 3, 15, 6, 1, 11, 2, 5, 6, 12, 7, 3, 15, 2, 4, 5, 11, 13, 14, 7, 14, 9, 11, 4, 3, 5, 2>>))
    @@
    (("(Some(\"6164e20ac3de15cbe6873d15338ae39392784d729dee7a4530ca5135588ce24e\"), 0)0f953d12a939fe4ef354fff77564841627136a6bf3667b256c4a5cb6768788da0f953d12a939fe4ef354fff77564841627136a6bf3667b256c4a5cb6768788da140fc148a380d69b8753d296355d450a4c606dfa652482747ab694cd6ac23972"
        :> <<1, 6, 10, 2, 13, 15, 5, 2, 12, 12, 5, 11, 8, 10, 6, 5, 14, 12, 12, 1, 14, 2, 4, 1, 8, 15, 1, 5, 15, 13, 12, 10, 10, 5, 12, 8, 1, 13, 5, 3, 0, 4, 0, 6, 14, 14, 3, 5, 13, 12, 1, 3, 10, 4, 5, 3, 8, 0, 7, 9, 6, 1, 3, 7>>)
    @@
    ("(Some(\"6164e20ac3de15cbe6873d15338ae39392784d729dee7a4530ca5135588ce24e\"), 0)0f953d12a939fe4ef354fff77564841627136a6bf3667b256c4a5cb6768788da140fc148a380d69b8753d296355d450a4c606dfa652482747ab694cd6ac23972"
        :> <<15, 6, 14, 3, 6, 9, 14, 5, 7, 5, 14, 7, 6, 13, 4, 10, 0, 3, 5, 9, 7, 11, 15, 14, 6, 10, 1, 9, 8, 14, 4, 5, 14, 0, 9, 10, 2, 0, 5, 9, 5, 15, 9, 0, 14, 14, 10, 13, 10, 7, 1, 13, 14, 12, 3, 15, 0, 2, 13, 14, 8, 0, 8, 13>>))))))
    @@
    ((((("(Some(\"6164e20ac3de15cbe6873d15338ae39392784d729dee7a4530ca5135588ce24e\"), 0)0f953d12a939fe4ef354fff77564841627136a6bf3667b256c4a5cb6768788da140fc148a380d69b8753d296355d450a4c606dfa652482747ab694cd6ac239720af7ba66f9a27ed0e229221aada0cc88d5d6fd58f46f72eb626bd37b8e94efc8"
        :> <<5, 11, 9, 8, 3, 11, 1, 15, 14, 2, 2, 0, 8, 7, 12, 14, 12, 9, 6, 7, 5, 8, 14, 7, 15, 11, 0, 3, 2, 6, 0, 14, 3, 4, 9, 2, 0, 13, 0, 3, 7, 3, 2, 15, 8, 4, 3, 13, 15, 12, 13, 3, 9, 10, 4, 7, 1, 13, 14, 4, 2, 10, 0, 14>>)
    @@
    (("(Some(\"6164e20ac3de15cbe6873d15338ae39392784d729dee7a4530ca5135588ce24e\"), 0)0f953d12a939fe4ef354fff77564841627136a6bf3667b256c4a5cb6768788da140fc148a380d69b8753d296355d450a4c606dfa652482747ab694cd6ac23972140fc148a380d69b8753d296355d450a4c606dfa652482747ab694cd6ac23972"
        :> <<15, 4, 11, 13, 7, 7, 2, 0, 1, 13, 12, 12, 7, 9, 14, 12, 10, 10, 9, 2, 3, 12, 9, 10, 2, 6, 4, 8, 8, 10, 0, 10, 1, 7, 0, 5, 4, 3, 9, 7, 14, 10, 9, 8, 15, 9, 14, 15, 10, 3, 5, 13, 9, 0, 6, 15, 11, 9, 4, 2, 9, 13, 4, 5>>)
    @@
    ("(Some(\"6164e20ac3de15cbe6873d15338ae39392784d729dee7a4530ca5135588ce24e\"), 0)0f953d12a939fe4ef354fff77564841627136a6bf3667b256c4a5cb6768788da7d3c95f98bd2b66af7c1d3a16cad13e01562539e02afc9695b86a5416092645f0af7ba66f9a27ed0e229221aada0cc88d5d6fd58f46f72eb626bd37b8e94efc8"
        :> <<2, 12, 9, 11, 13, 1, 5, 12, 12, 7, 6, 14, 15, 3, 14, 13, 6, 15, 9, 2, 2, 13, 13, 9, 11, 7, 5, 10, 14, 6, 4, 9, 3, 12, 6, 12, 8, 10, 5, 1, 13, 3, 15, 4, 8, 8, 5, 15, 2, 4, 5, 0, 8, 9, 9, 9, 6, 5, 2, 4, 7, 1, 8, 10>>)))
    @@
    (("(Some(\"6164e20ac3de15cbe6873d15338ae39392784d729dee7a4530ca5135588ce24e\"), 0)0f953d12a939fe4ef354fff77564841627136a6bf3667b256c4a5cb6768788da7d3c95f98bd2b66af7c1d3a16cad13e01562539e02afc9695b86a5416092645f140fc148a380d69b8753d296355d450a4c606dfa652482747ab694cd6ac23972"
        :> <<5, 11, 4, 13, 9, 8, 8, 4, 7, 12, 2, 8, 2, 7, 15, 14, 2, 15, 1, 8, 6, 1, 7, 0, 15, 10, 2, 0, 0, 14, 4, 9, 0, 7, 14, 1, 15, 10, 5, 7, 14, 7, 8, 15, 9, 2, 5, 9, 6, 6, 12, 11, 6, 2, 15, 11, 6, 5, 4, 5, 5, 10, 3, 2>>)
    @@
    (("(Some(\"6164e20ac3de15cbe6873d15338ae39392784d729dee7a4530ca5135588ce24e\"), 0)140fc148a380d69b8753d296355d450a4c606dfa652482747ab694cd6ac23972"
        :> <<6, 2, 0, 13, 15, 12, 6, 14, 14, 5, 9, 15, 9, 10, 15, 9, 9, 1, 0, 7, 11, 14, 15, 11, 14, 11, 10, 9, 6, 0, 10, 8, 13, 13, 6, 12, 6, 0, 2, 5, 12, 1, 13, 10, 10, 6, 5, 15, 13, 11, 10, 1, 11, 2, 4, 3, 3, 13, 6, 5, 1, 5, 4, 2>>)
    @@
    ("(Some(\"6164e20ac3de15cbe6873d15338ae39392784d729dee7a4530ca5135588ce24e\"), 0)140fc148a380d69b8753d296355d450a4c606dfa652482747ab694cd6ac239720af7ba66f9a27ed0e229221aada0cc88d5d6fd58f46f72eb626bd37b8e94efc8"
        :> <<1, 6, 10, 8, 2, 8, 9, 11, 9, 14, 12, 10, 1, 4, 13, 1, 5, 3, 2, 2, 15, 12, 6, 9, 8, 12, 4, 2, 15, 15, 0, 4, 5, 10, 12, 2, 14, 5, 2, 15, 2, 5, 15, 7, 7, 6, 1, 4, 8, 3, 14, 8, 4, 2, 3, 1, 8, 9, 6, 3, 10, 1, 2, 10>>))))
    @@
    ((("(Some(\"6164e20ac3de15cbe6873d15338ae39392784d729dee7a4530ca5135588ce24e\"), 0)140fc148a380d69b8753d296355d450a4c606dfa652482747ab694cd6ac239720af7ba66f9a27ed0e229221aada0cc88d5d6fd58f46f72eb626bd37b8e94efc80af7ba66f9a27ed0e229221aada0cc88d5d6fd58f46f72eb626bd37b8e94efc8"
        :> <<5, 4, 3, 13, 1, 9, 9, 6, 11, 14, 2, 13, 10, 1, 12, 5, 7, 6, 10, 3, 0, 5, 15, 15, 9, 15, 2, 9, 10, 2, 11, 3, 13, 12, 7, 4, 3, 1, 6, 3, 14, 2, 8, 7, 15, 10, 6, 5, 5, 13, 3, 11, 4, 12, 4, 0, 5, 15, 8, 8, 3, 12, 6, 6>>)
    @@
    (("(Some(\"6164e20ac3de15cbe6873d15338ae39392784d729dee7a4530ca5135588ce24e\"), 0)140fc148a380d69b8753d296355d450a4c606dfa652482747ab694cd6ac239720af7ba66f9a27ed0e229221aada0cc88d5d6fd58f46f72eb626bd37b8e94efc8140fc148a380d69b8753d296355d450a4c606dfa652482747ab694cd6ac23972"
        :> <<6, 15, 5, 10, 5, 7, 5, 4, 6, 13, 12, 5, 7, 11, 8, 6, 4, 14, 7, 1, 7, 11, 13, 0, 14, 3, 0, 15, 7, 2, 15, 11, 2, 9, 12, 14, 3, 12, 4, 3, 0, 6, 12, 8, 3, 15, 6, 12, 7, 2, 15, 2, 8, 14, 12, 0, 1, 0, 4, 4, 9, 11, 12, 1>>)
    @@
    ("(Some(\"6164e20ac3de15cbe6873d15338ae39392784d729dee7a4530ca5135588ce24e\"), 0)140fc148a380d69b8753d296355d450a4c606dfa652482747ab694cd6ac239720f953d12a939fe4ef354fff77564841627136a6bf3667b256c4a5cb6768788da0af7ba66f9a27ed0e229221aada0cc88d5d6fd58f46f72eb626bd37b8e94efc8"
        :> <<7, 3, 6, 15, 6, 10, 11, 3, 5, 3, 8, 0, 5, 7, 6, 13, 15, 9, 12, 9, 15, 11, 9, 4, 12, 8, 0, 13, 14, 2, 7, 15, 1, 4, 0, 13, 14, 14, 15, 2, 1, 1, 2, 10, 14, 1, 2, 3, 6, 2, 12, 10, 0, 4, 7, 12, 12, 3, 15, 7, 1, 2, 12, 7>>)))
    @@
    ((("(Some(\"6164e20ac3de15cbe6873d15338ae39392784d729dee7a4530ca5135588ce24e\"), 0)140fc148a380d69b8753d296355d450a4c606dfa652482747ab694cd6ac239720f953d12a939fe4ef354fff77564841627136a6bf3667b256c4a5cb6768788da140fc148a380d69b8753d296355d450a4c606dfa652482747ab694cd6ac23972"
        :> <<9, 10, 8, 6, 14, 10, 10, 8, 12, 1, 9, 3, 15, 10, 7, 8, 9, 14, 2, 0, 4, 11, 7, 12, 14, 15, 1, 1, 12, 0, 5, 5, 10, 3, 15, 5, 5, 2, 0, 12, 12, 11, 7, 6, 7, 5, 7, 3, 15, 2, 13, 1, 13, 9, 3, 4, 12, 3, 5, 14, 4, 9, 3, 15>>)
    @@
    ("(Some(\"6164e20ac3de15cbe6873d15338ae39392784d729dee7a4530ca5135588ce24e\"), 0)140fc148a380d69b8753d296355d450a4c606dfa652482747ab694cd6ac23972140fc148a380d69b8753d296355d450a4c606dfa652482747ab694cd6ac23972"
        :> <<7, 11, 14, 3, 14, 1, 2, 6, 11, 15, 1, 1, 0, 2, 6, 5, 2, 6, 4, 10, 3, 10, 12, 12, 2, 1, 15, 6, 13, 5, 8, 15, 14, 4, 9, 6, 3, 9, 6, 14, 12, 12, 11, 12, 12, 7, 9, 13, 9, 11, 7, 10, 6, 9, 5, 10, 7, 2, 11, 7, 13, 5, 10, 7>>))
    @@
    (("(Some(\"6164e20ac3de15cbe6873d15338ae39392784d729dee7a4530ca5135588ce24e\"), 0)140fc148a380d69b8753d296355d450a4c606dfa652482747ab694cd6ac23972140fc148a380d69b8753d296355d450a4c606dfa652482747ab694cd6ac239720af7ba66f9a27ed0e229221aada0cc88d5d6fd58f46f72eb626bd37b8e94efc8"
        :> <<10, 1, 9, 5, 13, 2, 3, 0, 3, 7, 5, 3, 3, 12, 5, 13, 13, 5, 4, 7, 14, 7, 15, 2, 0, 7, 1, 5, 11, 5, 5, 15, 14, 1, 7, 3, 14, 0, 8, 5, 15, 14, 9, 1, 9, 9, 4, 11, 11, 5, 9, 1, 4, 6, 0, 5, 3, 15, 14, 13, 10, 8, 7, 11>>)
    @@
    ("(Some(\"6164e20ac3de15cbe6873d15338ae39392784d729dee7a4530ca5135588ce24e\"), 0)140fc148a380d69b8753d296355d450a4c606dfa652482747ab694cd6ac23972140fc148a380d69b8753d296355d450a4c606dfa652482747ab694cd6ac23972140fc148a380d69b8753d296355d450a4c606dfa652482747ab694cd6ac23972"
        :> <<9, 8, 3, 5, 5, 12, 11, 0, 15, 5, 14, 9, 12, 4, 9, 7, 15, 14, 4, 12, 5, 8, 8, 7, 5, 10, 2, 9, 8, 4, 3, 8, 2, 7, 8, 1, 14, 0, 8, 14, 12, 10, 15, 7, 0, 2, 5, 12, 14, 11, 9, 14, 8, 6, 5, 10, 13, 4, 14, 10, 10, 14, 3, 7>>)))))
    @@
    (((("(Some(\"6164e20ac3de15cbe6873d15338ae39392784d729dee7a4530ca5135588ce24e\"), 0)140fc148a380d69b8753d296355d450a4c606dfa652482747ab694cd6ac239727d3c95f98bd2b66af7c1d3a16cad13e01562539e02afc9695b86a5416092645f0af7ba66f9a27ed0e229221aada0cc88d5d6fd58f46f72eb626bd37b8e94efc8"
        :> <<12, 7, 6, 15, 4, 3, 11, 5, 10, 7, 2, 5, 4, 13, 5, 9, 11, 11, 4, 15, 13, 13, 4, 3, 14, 5, 5, 2, 12, 13, 1, 11, 12, 6, 10, 2, 8, 5, 7, 4, 6, 13, 3, 13, 5, 1, 5, 6, 14, 3, 12, 8, 4, 11, 6, 15, 0, 6, 2, 14, 8, 11, 3, 14>>)
    @@
    (("(Some(\"6164e20ac3de15cbe6873d15338ae39392784d729dee7a4530ca5135588ce24e\"), 0)140fc148a380d69b8753d296355d450a4c606dfa652482747ab694cd6ac239727d3c95f98bd2b66af7c1d3a16cad13e01562539e02afc9695b86a5416092645f140fc148a380d69b8753d296355d450a4c606dfa652482747ab694cd6ac23972"
        :> <<7, 6, 3, 10, 2, 11, 4, 12, 5, 14, 1, 2, 7, 3, 9, 15, 3, 4, 0, 7, 9, 0, 14, 0, 12, 11, 6, 1, 10, 4, 9, 3, 1, 8, 8, 15, 7, 11, 6, 11, 4, 5, 8, 10, 15, 4, 11, 10, 9, 0, 13, 12, 4, 8, 13, 9, 5, 3, 0, 5, 13, 5, 4, 4>>)
    @@
    ("(Some(\"6164e20ac3de15cbe6873d15338ae39392784d729dee7a4530ca5135588ce24e\"), 0)7d3c95f98bd2b66af7c1d3a16cad13e01562539e02afc9695b86a5416092645f0af7ba66f9a27ed0e229221aada0cc88d5d6fd58f46f72eb626bd37b8e94efc8"
        :> <<13, 2, 4, 7, 10, 3, 5, 5, 9, 0, 15, 3, 14, 6, 2, 3, 11, 12, 14, 6, 0, 11, 12, 0, 10, 9, 1, 12, 6, 2, 6, 7, 1, 13, 4, 10, 0, 13, 8, 11, 3, 0, 13, 13, 11, 6, 6, 10, 12, 9, 9, 8, 7, 1, 4, 6, 5, 13, 3, 8, 11, 6, 6, 2>>)))
    @@
    (("(Some(\"6164e20ac3de15cbe6873d15338ae39392784d729dee7a4530ca5135588ce24e\"), 0)7d3c95f98bd2b66af7c1d3a16cad13e01562539e02afc9695b86a5416092645f0af7ba66f9a27ed0e229221aada0cc88d5d6fd58f46f72eb626bd37b8e94efc80af7ba66f9a27ed0e229221aada0cc88d5d6fd58f46f72eb626bd37b8e94efc8"
        :> <<0, 7, 5, 0, 1, 14, 14, 13, 4, 11, 1, 14, 15, 1, 13, 12, 12, 4, 5, 4, 13, 0, 6, 10, 15, 4, 12, 12, 6, 14, 10, 0, 13, 7, 7, 3, 11, 13, 0, 4, 15, 3, 12, 0, 0, 6, 0, 15, 12, 8, 5, 1, 11, 9, 1, 10, 0, 2, 15, 6, 12, 9, 8, 13>>)
    @@
    (("(Some(\"6164e20ac3de15cbe6873d15338ae39392784d729dee7a4530ca5135588ce24e\"), 0)7d3c95f98bd2b66af7c1d3a16cad13e01562539e02afc9695b86a5416092645f0af7ba66f9a27ed0e229221aada0cc88d5d6fd58f46f72eb626bd37b8e94efc8140fc148a380d69b8753d296355d450a4c606dfa652482747ab694cd6ac23972"
        :> <<13, 13, 7, 5, 7, 4, 8, 11, 1, 9, 5, 1, 10, 3, 1, 14, 0, 8, 7, 7, 3, 14, 1, 4, 7, 3, 0, 12, 2, 14, 15, 12, 0, 14, 10, 12, 11, 9, 7, 14, 3, 3, 12, 8, 13, 5, 3, 3, 11, 15, 8, 13, 15, 12, 10, 15, 2, 9, 4, 6, 13, 2, 2, 5>>)
    @@
    ("(Some(\"6164e20ac3de15cbe6873d15338ae39392784d729dee7a4530ca5135588ce24e\"), 0)7d3c95f98bd2b66af7c1d3a16cad13e01562539e02afc9695b86a5416092645f0f953d12a939fe4ef354fff77564841627136a6bf3667b256c4a5cb6768788da0af7ba66f9a27ed0e229221aada0cc88d5d6fd58f46f72eb626bd37b8e94efc8"
        :> <<4, 6, 2, 14, 11, 13, 1, 14, 10, 3, 8, 6, 14, 11, 1, 4, 10, 7, 13, 4, 14, 1, 13, 11, 4, 11, 10, 1, 10, 8, 11, 11, 9, 0, 5, 14, 15, 13, 2, 7, 4, 11, 14, 2, 1, 3, 6, 11, 3, 10, 9, 1, 1, 6, 9, 13, 13, 10, 14, 14, 14, 15, 5, 13>>))))
    @@
    ((("(Some(\"6164e20ac3de15cbe6873d15338ae39392784d729dee7a4530ca5135588ce24e\"), 0)7d3c95f98bd2b66af7c1d3a16cad13e01562539e02afc9695b86a5416092645f0f953d12a939fe4ef354fff77564841627136a6bf3667b256c4a5cb6768788da140fc148a380d69b8753d296355d450a4c606dfa652482747ab694cd6ac23972"
        :> <<15, 10, 8, 11, 1, 0, 3, 3, 5, 3, 7, 4, 8, 9, 1, 7, 12, 5, 6, 6, 4, 13, 7, 1, 6, 0, 5, 9, 12, 11, 14, 11, 9, 14, 3, 6, 15, 10, 4, 5, 12, 10, 10, 6, 8, 5, 8, 6, 2, 5, 10, 3, 7, 0, 4, 7, 0, 0, 13, 0, 1, 0, 15, 12>>)
    @@
    (("(Some(\"6164e20ac3de15cbe6873d15338ae39392784d729dee7a4530ca5135588ce24e\"), 0)7d3c95f98bd2b66af7c1d3a16cad13e01562539e02afc9695b86a5416092645f140fc148a380d69b8753d296355d450a4c606dfa652482747ab694cd6ac23972"
        :> <<9, 8, 6, 3, 6, 15, 4, 1, 7, 6, 8, 13, 11, 4, 0, 8, 14, 12, 14, 11, 7, 8, 1, 0, 9, 4, 12, 2, 2, 7, 14, 9, 4, 4, 12, 10, 8, 3, 12, 4, 3, 5, 9, 5, 14, 11, 11, 1, 13, 8, 9, 9, 15, 11, 2, 14, 1, 4, 14, 8, 3, 12, 11, 9>>)
    @@
    ("(Some(\"6164e20ac3de15cbe6873d15338ae39392784d729dee7a4530ca5135588ce24e\"), 0)7d3c95f98bd2b66af7c1d3a16cad13e01562539e02afc9695b86a5416092645f140fc148a380d69b8753d296355d450a4c606dfa652482747ab694cd6ac239720af7ba66f9a27ed0e229221aada0cc88d5d6fd58f46f72eb626bd37b8e94efc8"
        :> <<10, 6, 0, 13, 13, 10, 3, 9, 6, 6, 15, 14, 9, 10, 10, 0, 1, 15, 12, 2, 11, 8, 8, 0, 13, 12, 14, 14, 0, 11, 9, 12, 15, 1, 0, 0, 0, 12, 4, 11, 14, 4, 3, 12, 4, 8, 4, 12, 12, 1, 4, 12, 12, 15, 7, 11, 12, 2, 1, 14, 14, 3, 2, 10>>)))
    @@
    ((("(Some(\"6164e20ac3de15cbe6873d15338ae39392784d729dee7a4530ca5135588ce24e\"), 0)7d3c95f98bd2b66af7c1d3a16cad13e01562539e02afc9695b86a5416092645f140fc148a380d69b8753d296355d450a4c606dfa652482747ab694cd6ac23972140fc148a380d69b8753d296355d450a4c606dfa652482747ab694cd6ac23972"
        :> <<6, 12, 0, 1, 4, 15, 11, 9, 13, 1, 4, 3, 15, 14, 12, 5, 3, 10, 15, 0, 15, 6, 10, 0, 1, 6, 1, 5, 12, 13, 1, 10, 13, 15, 10, 11, 15, 7, 14, 3, 8, 7, 10, 10, 13, 2, 6, 10, 4, 15, 14, 5, 8, 6, 11, 4, 15, 11, 7, 12, 8, 12, 1, 2>>)
    @@
    ("(Some(\"6164e20ac3de15cbe6873d15338ae39392784d729dee7a4530ca5135588ce24e\"), 0)7d3c95f98bd2b66af7c1d3a16cad13e01562539e02afc9695b86a5416092645f7d3c95f98bd2b66af7c1d3a16cad13e01562539e02afc9695b86a5416092645f0af7ba66f9a27ed0e229221aada0cc88d5d6fd58f46f72eb626bd37b8e94efc8"
        :> <<14, 14, 4, 7, 8, 5, 5, 15, 11, 9, 2, 0, 5, 13, 1, 7, 10, 0, 10, 6, 14, 12, 9, 14, 9, 6, 10, 12, 1, 7, 8, 8, 0, 12, 13, 14, 15, 14, 6, 7, 10, 10, 2, 9, 1, 2, 10, 13, 4, 12, 13, 6, 3, 7, 1, 8, 10, 15, 0, 15, 3, 14, 12, 11>>))
    @@
    (("(Some(\"6164e20ac3de15cbe6873d15338ae39392784d729dee7a4530ca5135588ce24e\"), 0)7d3c95f98bd2b66af7c1d3a16cad13e01562539e02afc9695b86a5416092645f7d3c95f98bd2b66af7c1d3a16cad13e01562539e02afc9695b86a5416092645f140fc148a380d69b8753d296355d450a4c606dfa652482747ab694cd6ac23972"
        :> <<5, 2, 5, 8, 13, 15, 9, 10, 8, 12, 8, 10, 1, 2, 15, 4, 2, 2, 1, 4, 10, 15, 7, 13, 2, 3, 12, 14, 15, 6, 6, 15, 3, 1, 15, 9, 8, 8, 3, 14, 8, 8, 14, 7, 0, 11, 6, 8, 8, 3, 10, 11, 7, 2, 10, 3, 10, 4, 14, 7, 5, 5, 7, 13>>)
    @@
    ("(Some(\"6164e20ac3de15cbe6873d15338ae39392784d729dee7a4530ca5135588ce24e\"), 1)"
        :> <<11, 1, 15, 13, 1, 11, 7, 5, 9, 4, 13, 12, 15, 5, 10, 5, 8, 4, 4, 14, 14, 3, 3, 12, 1, 15, 9, 9, 0, 14, 13, 5, 1, 6, 2, 12, 4, 14, 13, 7, 15, 12, 0, 12, 1, 4, 8, 7, 11, 8, 8, 1, 4, 3, 10, 9, 12, 8, 3, 11, 2, 10, 6, 13>>))))))))
    @@
    ((((((("(Some(\"6164e20ac3de15cbe6873d15338ae39392784d729dee7a4530ca5135588ce24e\"), 1)0af7ba66f9a27ed0e229221aada0cc88d5d6fd58f46f72eb626bd37b8e94efc8"
        :> <<3, 8, 5, 8, 10, 7, 10, 11, 4, 12, 8, 4, 0, 9, 13, 0, 10, 8, 2, 10, 13, 10, 4, 1, 10, 4, 14, 8, 10, 1, 11, 10, 12, 10, 5, 2, 3, 3, 8, 4, 14, 9, 5, 3, 4, 11, 12, 4, 5, 3, 4, 12, 10, 15, 2, 3, 0, 5, 8, 8, 14, 9, 3, 14>>)
    @@
    (("(Some(\"6164e20ac3de15cbe6873d15338ae39392784d729dee7a4530ca5135588ce24e\"), 1)0af7ba66f9a27ed0e229221aada0cc88d5d6fd58f46f72eb626bd37b8e94efc80af7ba66f9a27ed0e229221aada0cc88d5d6fd58f46f72eb626bd37b8e94efc8"
        :> <<3, 10, 10, 5, 6, 6, 0, 2, 3, 10, 13, 7, 10, 8, 3, 15, 13, 0, 8, 3, 7, 0, 4, 15, 9, 8, 6, 1, 12, 14, 13, 5, 6, 13, 7, 13, 1, 15, 15, 14, 0, 7, 7, 2, 7, 11, 15, 9, 9, 14, 14, 9, 0, 5, 8, 4, 3, 2, 15, 8, 3, 5, 14, 3>>)
    @@
    ("(Some(\"6164e20ac3de15cbe6873d15338ae39392784d729dee7a4530ca5135588ce24e\"), 1)0af7ba66f9a27ed0e229221aada0cc88d5d6fd58f46f72eb626bd37b8e94efc80af7ba66f9a27ed0e229221aada0cc88d5d6fd58f46f72eb626bd37b8e94efc80af7ba66f9a27ed0e229221aada0cc88d5d6fd58f46f72eb626bd37b8e94efc8"
        :> <<5, 4, 11, 11, 3, 14, 1, 0, 3, 14, 11, 13, 9, 12, 2, 7, 10, 12, 4, 10, 5, 15, 0, 10, 1, 11, 2, 11, 5, 15, 5, 7, 13, 12, 14, 2, 6, 7, 7, 3, 7, 6, 6, 0, 3, 3, 7, 13, 9, 7, 7, 5, 9, 12, 10, 7, 1, 9, 11, 15, 15, 14, 2, 10>>)))
    @@
    (("(Some(\"6164e20ac3de15cbe6873d15338ae39392784d729dee7a4530ca5135588ce24e\"), 1)0af7ba66f9a27ed0e229221aada0cc88d5d6fd58f46f72eb626bd37b8e94efc80af7ba66f9a27ed0e229221aada0cc88d5d6fd58f46f72eb626bd37b8e94efc80f953d12a939fe4ef354fff77564841627136a6bf3667b256c4a5cb6768788da"
        :> <<13, 5, 11, 11, 14, 11, 7, 9, 9, 9, 13, 14, 15, 9, 4, 6, 7, 1, 5, 7, 10, 11, 5, 8, 5, 10, 13, 14, 6, 6, 6, 6, 15, 1, 1, 11, 6, 14, 6, 14, 13, 0, 0, 2, 2, 1, 12, 10, 3, 7, 5, 9, 0, 14, 11, 15, 11, 4, 7, 13, 8, 7, 12, 3>>)
    @@
    (("(Some(\"6164e20ac3de15cbe6873d15338ae39392784d729dee7a4530ca5135588ce24e\"), 1)0af7ba66f9a27ed0e229221aada0cc88d5d6fd58f46f72eb626bd37b8e94efc80af7ba66f9a27ed0e229221aada0cc88d5d6fd58f46f72eb626bd37b8e94efc8140fc148a380d69b8753d296355d450a4c606dfa652482747ab694cd6ac23972"
        :> <<7, 0, 9, 9, 6, 7, 15, 4, 11, 0, 15, 7, 6, 15, 9, 10, 6, 9, 8, 6, 0, 0, 7, 3, 4, 1, 3, 5, 10, 4, 8, 3, 1, 9, 12, 4, 1, 9, 8, 9, 12, 15, 2, 1, 12, 8, 5, 2, 5, 5, 13, 13, 6, 7, 10, 9, 12, 2, 11, 11, 15, 0, 5, 8>>)
    @@
    ("(Some(\"6164e20ac3de15cbe6873d15338ae39392784d729dee7a4530ca5135588ce24e\"), 1)0af7ba66f9a27ed0e229221aada0cc88d5d6fd58f46f72eb626bd37b8e94efc80af7ba66f9a27ed0e229221aada0cc88d5d6fd58f46f72eb626bd37b8e94efc87d3c95f98bd2b66af7c1d3a16cad13e01562539e02afc9695b86a5416092645f"
        :> <<9, 15, 6, 4, 2, 2, 7, 9, 1, 3, 1, 4, 5, 0, 9, 11, 15, 14, 2, 5, 14, 12, 0, 1, 3, 4, 13, 1, 5, 7, 14, 6, 13, 15, 9, 10, 7, 2, 4, 1, 3, 15, 12, 4, 12, 11, 14, 11, 11, 8, 12, 9, 15, 13, 8, 5, 8, 13, 2, 9, 11, 8, 15, 9>>))))
    @@
    ((("(Some(\"6164e20ac3de15cbe6873d15338ae39392784d729dee7a4530ca5135588ce24e\"), 1)0af7ba66f9a27ed0e229221aada0cc88d5d6fd58f46f72eb626bd37b8e94efc80f953d12a939fe4ef354fff77564841627136a6bf3667b256c4a5cb6768788da"
        :> <<11, 0, 0, 15, 5, 6, 10, 12, 4, 15, 2, 6, 13, 13, 10, 5, 15, 10, 15, 7, 12, 4, 5, 14, 13, 15, 15, 12, 14, 11, 15, 14, 14, 5, 6, 11, 4, 4, 6, 12, 7, 2, 12, 15, 3, 15, 1, 8, 3, 6, 12, 12, 9, 8, 11, 12, 12, 2, 2, 12, 2, 7, 4, 2>>)
    @@
    (("(Some(\"6164e20ac3de15cbe6873d15338ae39392784d729dee7a4530ca5135588ce24e\"), 1)0af7ba66f9a27ed0e229221aada0cc88d5d6fd58f46f72eb626bd37b8e94efc80f953d12a939fe4ef354fff77564841627136a6bf3667b256c4a5cb6768788da0af7ba66f9a27ed0e229221aada0cc88d5d6fd58f46f72eb626bd37b8e94efc8"
        :> <<14, 6, 2, 1, 6, 9, 3, 2, 8, 15, 8, 8, 15, 13, 15, 14, 2, 4, 3, 15, 15, 7, 1, 13, 14, 12, 15, 14, 15, 4, 11, 12, 4, 4, 15, 0, 7, 11, 5, 0, 13, 8, 9, 12, 11, 10, 9, 10, 4, 10, 5, 1, 8, 10, 6, 0, 13, 13, 5, 14, 10, 4, 0, 11>>)
    @@
    ("(Some(\"6164e20ac3de15cbe6873d15338ae39392784d729dee7a4530ca5135588ce24e\"), 1)0af7ba66f9a27ed0e229221aada0cc88d5d6fd58f46f72eb626bd37b8e94efc80f953d12a939fe4ef354fff77564841627136a6bf3667b256c4a5cb6768788da0f953d12a939fe4ef354fff77564841627136a6bf3667b256c4a5cb6768788da"
        :> <<10, 7, 15, 10, 12, 0, 15, 7, 1, 7, 0, 11, 10, 13, 2, 6, 12, 10, 4, 13, 12, 1, 9, 12, 2, 0, 10, 6, 4, 11, 0, 4, 9, 5, 7, 1, 12, 9, 1, 12, 0, 0, 7, 11, 14, 2, 7, 13, 6, 3, 2, 2, 0, 11, 9, 2, 5, 9, 6, 2, 3, 2, 9, 5>>)))
    @@
    ((("(Some(\"6164e20ac3de15cbe6873d15338ae39392784d729dee7a4530ca5135588ce24e\"), 1)0af7ba66f9a27ed0e229221aada0cc88d5d6fd58f46f72eb626bd37b8e94efc80f953d12a939fe4ef354fff77564841627136a6bf3667b256c4a5cb6768788da140fc148a380d69b8753d296355d450a4c606dfa652482747ab694cd6ac23972"
        :> <<14, 0, 5, 11, 4, 0, 9, 1, 0, 1, 7, 8, 11, 12, 4, 5, 7, 3, 15, 8, 15, 10, 5, 3, 10, 5, 9, 2, 11, 3, 8, 2, 4, 10, 12, 2, 7, 9, 3, 4, 11, 9, 10, 2, 8, 14, 8, 15, 2, 8, 12, 0, 15, 5, 8, 11, 14, 9, 9, 5, 13, 5, 4, 2>>)
    @@
    ("(Some(\"6164e20ac3de15cbe6873d15338ae39392784d729dee7a4530ca5135588ce24e\"), 1)0af7ba66f9a27ed0e229221aada0cc88d5d6fd58f46f72eb626bd37b8e94efc80f953d12a939fe4ef354fff77564841627136a6bf3667b256c4a5cb6768788da7d3c95f98bd2b66af7c1d3a16cad13e01562539e02afc9695b86a5416092645f"
        :> <<4, 6, 9, 15, 12, 8, 15, 15, 8, 6, 13, 6, 9, 14, 6, 8, 13, 2, 15, 2, 5, 3, 11, 11, 5, 13, 0, 11, 6, 13, 7, 1, 4, 8, 14, 5, 5, 14, 6, 2, 4, 14, 6, 12, 15, 0, 11, 4, 5, 14, 13, 10, 4, 10, 8, 6, 13, 14, 7, 0, 15, 10, 3, 5>>))
    @@
    (("(Some(\"6164e20ac3de15cbe6873d15338ae39392784d729dee7a4530ca5135588ce24e\"), 1)0af7ba66f9a27ed0e229221aada0cc88d5d6fd58f46f72eb626bd37b8e94efc8140fc148a380d69b8753d296355d450a4c606dfa652482747ab694cd6ac23972"
        :> <<14, 15, 3, 15, 8, 0, 5, 0, 13, 4, 12, 7, 9, 7, 10, 15, 14, 0, 9, 15, 10, 7, 13, 7, 11, 9, 15, 8, 15, 9, 4, 13, 9, 11, 13, 4, 11, 3, 5, 8, 11, 3, 10, 11, 14, 10, 9, 6, 1, 3, 13, 9, 14, 4, 5, 10, 1, 3, 7, 4, 5, 14, 2, 4>>)
    @@
    ("(Some(\"6164e20ac3de15cbe6873d15338ae39392784d729dee7a4530ca5135588ce24e\"), 1)0af7ba66f9a27ed0e229221aada0cc88d5d6fd58f46f72eb626bd37b8e94efc8140fc148a380d69b8753d296355d450a4c606dfa652482747ab694cd6ac239720af7ba66f9a27ed0e229221aada0cc88d5d6fd58f46f72eb626bd37b8e94efc8"
        :> <<14, 14, 9, 9, 6, 3, 6, 5, 5, 0, 7, 6, 13, 2, 12, 5, 6, 3, 11, 5, 10, 3, 6, 14, 11, 15, 8, 4, 3, 8, 0, 7, 14, 5, 0, 1, 9, 8, 7, 2, 13, 2, 6, 15, 9, 9, 7, 1, 11, 4, 1, 11, 6, 14, 15, 7, 1, 5, 5, 5, 12, 6, 10, 8>>)))))
    @@
    (((("(Some(\"6164e20ac3de15cbe6873d15338ae39392784d729dee7a4530ca5135588ce24e\"), 1)0af7ba66f9a27ed0e229221aada0cc88d5d6fd58f46f72eb626bd37b8e94efc8140fc148a380d69b8753d296355d450a4c606dfa652482747ab694cd6ac239720f953d12a939fe4ef354fff77564841627136a6bf3667b256c4a5cb6768788da"
        :> <<5, 7, 0, 13, 7, 8, 15, 9, 4, 3, 11, 4, 7, 10, 12, 3, 4, 1, 7, 3, 15, 3, 4, 5, 14, 1, 0, 1, 12, 2, 11, 12, 7, 10, 15, 15, 12, 1, 10, 9, 9, 13, 12, 10, 5, 14, 11, 3, 10, 11, 8, 5, 1, 10, 4, 11, 0, 14, 13, 14, 8, 15, 15, 13>>)
    @@
    (("(Some(\"6164e20ac3de15cbe6873d15338ae39392784d729dee7a4530ca5135588ce24e\"), 1)0af7ba66f9a27ed0e229221aada0cc88d5d6fd58f46f72eb626bd37b8e94efc8140fc148a380d69b8753d296355d450a4c606dfa652482747ab694cd6ac23972140fc148a380d69b8753d296355d450a4c606dfa652482747ab694cd6ac23972"
        :> <<3, 5, 12, 10, 10, 5, 3, 4, 1, 12, 12, 7, 8, 11, 1, 7, 10, 14, 3, 3, 7, 14, 12, 9, 8, 4, 14, 9, 13, 6, 1, 2, 10, 7, 4, 14, 6, 14, 0, 0, 15, 6, 13, 8, 8, 1, 3, 11, 13, 12, 7, 15, 15, 0, 4, 15, 2, 10, 4, 5, 15, 3, 3, 0>>)
    @@
    ("(Some(\"6164e20ac3de15cbe6873d15338ae39392784d729dee7a4530ca5135588ce24e\"), 1)0af7ba66f9a27ed0e229221aada0cc88d5d6fd58f46f72eb626bd37b8e94efc8140fc148a380d69b8753d296355d450a4c606dfa652482747ab694cd6ac239727d3c95f98bd2b66af7c1d3a16cad13e01562539e02afc9695b86a5416092645f"
        :> <<11, 5, 2, 12, 3, 4, 12, 9, 6, 11, 14, 8, 12, 1, 8, 11, 14, 5, 12, 12, 12, 4, 0, 3, 4, 8, 5, 7, 11, 2, 6, 9, 1, 3, 12, 10, 11, 9, 3, 7, 8, 14, 4, 8, 6, 3, 12, 7, 15, 2, 15, 3, 5, 2, 5, 5, 2, 9, 5, 14, 13, 11, 14, 14>>)))
    @@
    (("(Some(\"6164e20ac3de15cbe6873d15338ae39392784d729dee7a4530ca5135588ce24e\"), 1)0af7ba66f9a27ed0e229221aada0cc88d5d6fd58f46f72eb626bd37b8e94efc87d3c95f98bd2b66af7c1d3a16cad13e01562539e02afc9695b86a5416092645f"
        :> <<6, 2, 0, 11, 1, 2, 1, 2, 10, 14, 15, 11, 6, 10, 1, 9, 4, 3, 5, 2, 14, 10, 8, 13, 10, 2, 14, 2, 12, 5, 3, 1, 2, 6, 9, 10, 14, 9, 4, 3, 9, 3, 7, 8, 10, 1, 5, 11, 4, 7, 7, 15, 9, 12, 6, 8, 6, 8, 4, 5, 11, 1, 7, 13>>)
    @@
    (("(Some(\"6164e20ac3de15cbe6873d15338ae39392784d729dee7a4530ca5135588ce24e\"), 1)0af7ba66f9a27ed0e229221aada0cc88d5d6fd58f46f72eb626bd37b8e94efc87d3c95f98bd2b66af7c1d3a16cad13e01562539e02afc9695b86a5416092645f0af7ba66f9a27ed0e229221aada0cc88d5d6fd58f46f72eb626bd37b8e94efc8"
        :> <<13, 0, 11, 4, 0, 8, 4, 9, 1, 7, 6, 12, 1, 11, 10, 8, 6, 1, 11, 8, 1, 14, 3, 0, 15, 12, 12, 6, 7, 9, 3, 2, 13, 14, 1, 15, 6, 2, 10, 4, 12, 0, 12, 10, 11, 3, 0, 10, 12, 15, 6, 1, 7, 5, 4, 13, 1, 5, 3, 10, 13, 2, 1, 14>>)
    @@
    ("(Some(\"6164e20ac3de15cbe6873d15338ae39392784d729dee7a4530ca5135588ce24e\"), 1)0af7ba66f9a27ed0e229221aada0cc88d5d6fd58f46f72eb626bd37b8e94efc87d3c95f98bd2b66af7c1d3a16cad13e01562539e02afc9695b86a5416092645f0f953d12a939fe4ef354fff77564841627136a6bf3667b256c4a5cb6768788da"
        :> <<3, 7, 11, 15, 6, 11, 3, 14, 8, 14, 7, 8, 12, 10, 6, 0, 3, 8, 6, 9, 13, 13, 5, 13, 5, 14, 13, 8, 7, 15, 4, 9, 3, 10, 11, 14, 9, 11, 6, 9, 0, 3, 13, 7, 7, 1, 7, 7, 9, 15, 10, 11, 6, 6, 10, 13, 1, 8, 15, 1, 3, 12, 1, 5>>))))
    @@
    ((("(Some(\"6164e20ac3de15cbe6873d15338ae39392784d729dee7a4530ca5135588ce24e\"), 1)0af7ba66f9a27ed0e229221aada0cc88d5d6fd58f46f72eb626bd37b8e94efc87d3c95f98bd2b66af7c1d3a16cad13e01562539e02afc9695b86a5416092645f140fc148a380d69b8753d296355d450a4c606dfa652482747ab694cd6ac23972"
        :> <<2, 6, 3, 14, 5, 5, 11, 4, 15, 15, 14, 15, 15, 15, 2, 6, 5, 15, 12, 5, 8, 5, 7, 14, 4, 1, 11, 6, 1, 10, 7, 8, 12, 8, 14, 11, 15, 15, 6, 13, 9, 7, 11, 13, 10, 1, 6, 13, 1, 6, 13, 10, 0, 9, 12, 8, 15, 7, 15, 3, 10, 0, 6, 2>>)
    @@
    (("(Some(\"6164e20ac3de15cbe6873d15338ae39392784d729dee7a4530ca5135588ce24e\"), 1)0af7ba66f9a27ed0e229221aada0cc88d5d6fd58f46f72eb626bd37b8e94efc87d3c95f98bd2b66af7c1d3a16cad13e01562539e02afc9695b86a5416092645f7d3c95f98bd2b66af7c1d3a16cad13e01562539e02afc9695b86a5416092645f"
        :> <<9, 8, 13, 2, 12, 2, 11, 7, 1, 10, 5, 15, 14, 14, 15, 3, 3, 9, 0, 13, 2, 0, 9, 14, 10, 15, 10, 2, 9, 13, 0, 15, 8, 0, 11, 12, 13, 10, 15, 13, 10, 8, 15, 10, 7, 7, 15, 0, 4, 6, 15, 12, 1, 10, 10, 2, 13, 14, 11, 11, 11, 8, 10, 1>>)
    @@
    ("(Some(\"6164e20ac3de15cbe6873d15338ae39392784d729dee7a4530ca5135588ce24e\"), 1)0f953d12a939fe4ef354fff77564841627136a6bf3667b256c4a5cb6768788da"
        :> <<3, 12, 2, 6, 9, 5, 15, 11, 3, 11, 11, 4, 6, 1, 13, 3, 3, 3, 5, 13, 3, 3, 4, 1, 6, 15, 3, 0, 12, 12, 3, 6, 6, 11, 0, 13, 5, 8, 7, 6, 4, 13, 9, 12, 13, 7, 8, 7, 3, 6, 7, 4, 0, 6, 12, 10, 12, 14, 13, 2, 8, 11, 2, 1>>)))
    @@
    ((("(Some(\"6164e20ac3de15cbe6873d15338ae39392784d729dee7a4530ca5135588ce24e\"), 1)0f953d12a939fe4ef354fff77564841627136a6bf3667b256c4a5cb6768788da0af7ba66f9a27ed0e229221aada0cc88d5d6fd58f46f72eb626bd37b8e94efc8"
        :> <<2, 4, 12, 9, 9, 11, 2, 3, 4, 5, 7, 3, 10, 4, 3, 2, 8, 12, 3, 3, 7, 15, 15, 11, 9, 13, 3, 9, 2, 1, 13, 9, 14, 13, 8, 8, 10, 3, 9, 7, 3, 10, 8, 13, 6, 4, 9, 7, 14, 10, 4, 10, 10, 8, 2, 5, 2, 3, 6, 8, 1, 3, 8, 13>>)
    @@
    ("(Some(\"6164e20ac3de15cbe6873d15338ae39392784d729dee7a4530ca5135588ce24e\"), 1)0f953d12a939fe4ef354fff77564841627136a6bf3667b256c4a5cb6768788da0af7ba66f9a27ed0e229221aada0cc88d5d6fd58f46f72eb626bd37b8e94efc80af7ba66f9a27ed0e229221aada0cc88d5d6fd58f46f72eb626bd37b8e94efc8"
        :> <<9, 6, 5, 15, 8, 7, 5, 15, 9, 2, 9, 11, 2, 11, 3, 2, 13, 7, 3, 4, 5, 8, 2, 9, 12, 15, 9, 12, 3, 7, 2, 11, 7, 4, 13, 4, 6, 7, 3, 1, 4, 13, 8, 12, 15, 15, 9, 1, 0, 11, 0, 8, 6, 7, 14, 10, 12, 12, 14, 5, 12, 6, 10, 6>>))
    @@
    (("(Some(\"6164e20ac3de15cbe6873d15338ae39392784d729dee7a4530ca5135588ce24e\"), 1)0f953d12a939fe4ef354fff77564841627136a6bf3667b256c4a5cb6768788da0af7ba66f9a27ed0e229221aada0cc88d5d6fd58f46f72eb626bd37b8e94efc80f953d12a939fe4ef354fff77564841627136a6bf3667b256c4a5cb6768788da"
        :> <<14, 8, 2, 6, 4, 0, 14, 2, 10, 12, 10, 4, 8, 9, 9, 4, 8, 15, 5, 3, 2, 6, 1, 0, 6, 15, 0, 4, 12, 7, 1, 3, 8, 11, 13, 0, 3, 13, 6, 4, 15, 7, 15, 14, 3, 15, 8, 14, 8, 10, 6, 7, 14, 3, 6, 14, 1, 4, 6, 4, 12, 3, 7, 8>>)
    @@
    ("(Some(\"6164e20ac3de15cbe6873d15338ae39392784d729dee7a4530ca5135588ce24e\"), 1)0f953d12a939fe4ef354fff77564841627136a6bf3667b256c4a5cb6768788da0af7ba66f9a27ed0e229221aada0cc88d5d6fd58f46f72eb626bd37b8e94efc8140fc148a380d69b8753d296355d450a4c606dfa652482747ab694cd6ac23972"
        :> <<2, 4, 7, 5, 1, 15, 15, 7, 7, 13, 8, 10, 2, 6, 0, 4, 10, 15, 4, 3, 5, 13, 14, 9, 12, 9, 5, 15, 4, 5, 8, 13, 13, 8, 11, 14, 8, 10, 7, 11, 14, 3, 1, 0, 8, 9, 9, 3, 11, 5, 3, 15, 0, 12, 12, 12, 5, 12, 2, 7, 10, 8, 3, 13>>))))))
    @@
    ((((("(Some(\"6164e20ac3de15cbe6873d15338ae39392784d729dee7a4530ca5135588ce24e\"), 1)0f953d12a939fe4ef354fff77564841627136a6bf3667b256c4a5cb6768788da0af7ba66f9a27ed0e229221aada0cc88d5d6fd58f46f72eb626bd37b8e94efc87d3c95f98bd2b66af7c1d3a16cad13e01562539e02afc9695b86a5416092645f"
        :> <<13, 1, 4, 12, 8, 14, 11, 1, 1, 13, 6, 12, 4, 8, 12, 10, 0, 2, 7, 12, 12, 3, 0, 8, 12, 7, 3, 6, 0, 9, 2, 8, 13, 2, 4, 13, 4, 3, 5, 9, 1, 8, 9, 15, 7, 0, 7, 4, 2, 12, 13, 1, 12, 4, 2, 8, 2, 8, 6, 1, 11, 15, 7, 0>>)
    @@
    (("(Some(\"6164e20ac3de15cbe6873d15338ae39392784d729dee7a4530ca5135588ce24e\"), 1)0f953d12a939fe4ef354fff77564841627136a6bf3667b256c4a5cb6768788da0f953d12a939fe4ef354fff77564841627136a6bf3667b256c4a5cb6768788da"
        :> <<6, 7, 6, 3, 0, 7, 15, 9, 4, 5, 10, 6, 12, 14, 8, 7, 1, 15, 12, 11, 11, 6, 8, 11, 14, 6, 14, 7, 3, 9, 0, 7, 2, 6, 12, 9, 9, 9, 5, 6, 11, 4, 12, 1, 13, 9, 14, 5, 11, 1, 11, 1, 6, 7, 0, 7, 5, 1, 6, 4, 3, 1, 7, 5>>)
    @@
    ("(Some(\"6164e20ac3de15cbe6873d15338ae39392784d729dee7a4530ca5135588ce24e\"), 1)0f953d12a939fe4ef354fff77564841627136a6bf3667b256c4a5cb6768788da0f953d12a939fe4ef354fff77564841627136a6bf3667b256c4a5cb6768788da0af7ba66f9a27ed0e229221aada0cc88d5d6fd58f46f72eb626bd37b8e94efc8"
        :> <<7, 13, 12, 3, 4, 4, 9, 15, 2, 5, 4, 6, 15, 2, 11, 3, 14, 3, 9, 15, 12, 1, 2, 5, 11, 3, 0, 15, 15, 7, 4, 11, 8, 1, 9, 2, 6, 8, 3, 10, 14, 8, 3, 6, 5, 9, 14, 15, 4, 8, 9, 14, 7, 8, 12, 6, 4, 7, 10, 2, 6, 10, 0, 8>>)))
    @@
    (("(Some(\"6164e20ac3de15cbe6873d15338ae39392784d729dee7a4530ca5135588ce24e\"), 1)0f953d12a939fe4ef354fff77564841627136a6bf3667b256c4a5cb6768788da0f953d12a939fe4ef354fff77564841627136a6bf3667b256c4a5cb6768788da0f953d12a939fe4ef354fff77564841627136a6bf3667b256c4a5cb6768788da"
        :> <<13, 14, 2, 13, 0, 13, 15, 10, 3, 5, 7, 11, 0, 5, 14, 13, 7, 10, 7, 8, 0, 0, 5, 3, 7, 1, 2, 0, 2, 14, 7, 4, 8, 14, 8, 8, 9, 14, 0, 4, 15, 14, 12, 0, 7, 9, 9, 1, 9, 8, 13, 4, 2, 2, 15, 2, 5, 5, 0, 0, 1, 7, 13, 15>>)
    @@
    (("(Some(\"6164e20ac3de15cbe6873d15338ae39392784d729dee7a4530ca5135588ce24e\"), 1)0f953d12a939fe4ef354fff77564841627136a6bf3667b256c4a5cb6768788da0f953d12a939fe4ef354fff77564841627136a6bf3667b256c4a5cb6768788da140fc148a380d69b8753d296355d450a4c606dfa652482747ab694cd6ac23972"
        :> <<9, 0, 5, 0, 0, 6, 10, 9, 8, 3, 12, 2, 4, 5, 14, 14, 3, 11, 10, 14, 0, 5, 7, 12, 2, 0, 8, 15, 4, 2, 11, 3, 7, 0, 0, 14, 2, 6, 6, 15, 12, 7, 14, 4, 0, 11, 1, 15, 8, 3, 14, 14, 3, 8, 9, 10, 12, 12, 5, 9, 10, 5, 15, 0>>)
    @@
    ("(Some(\"6164e20ac3de15cbe6873d15338ae39392784d729dee7a4530ca5135588ce24e\"), 1)0f953d12a939fe4ef354fff77564841627136a6bf3667b256c4a5cb6768788da0f953d12a939fe4ef354fff77564841627136a6bf3667b256c4a5cb6768788da7d3c95f98bd2b66af7c1d3a16cad13e01562539e02afc9695b86a5416092645f"
        :> <<3, 10, 11, 3, 5, 14, 10, 8, 10, 12, 0, 8, 1, 9, 12, 4, 9, 10, 13, 4, 0, 7, 9, 15, 5, 13, 7, 6, 1, 7, 3, 15, 15, 10, 9, 1, 4, 0, 4, 1, 15, 12, 1, 13, 5, 14, 4, 12, 14, 12, 2, 15, 7, 15, 11, 15, 10, 13, 6, 3, 0, 5, 13, 3>>))))
    @@
    ((("(Some(\"6164e20ac3de15cbe6873d15338ae39392784d729dee7a4530ca5135588ce24e\"), 1)0f953d12a939fe4ef354fff77564841627136a6bf3667b256c4a5cb6768788da140fc148a380d69b8753d296355d450a4c606dfa652482747ab694cd6ac23972"
        :> <<7, 11, 3, 9, 9, 9, 2, 5, 10, 1, 3, 10, 5, 10, 11, 10, 4, 3, 1, 14, 15, 7, 11, 2, 14, 2, 6, 9, 7, 2, 11, 8, 6, 10, 9, 3, 6, 15, 11, 3, 6, 13, 5, 12, 2, 5, 6, 4, 1, 10, 7, 4, 2, 15, 9, 2, 3, 13, 2, 11, 12, 1, 12, 1>>)
    @@
    (("(Some(\"6164e20ac3de15cbe6873d15338ae39392784d729dee7a4530ca5135588ce24e\"), 1)0f953d12a939fe4ef354fff77564841627136a6bf3667b256c4a5cb6768788da140fc148a380d69b8753d296355d450a4c606dfa652482747ab694cd6ac239720af7ba66f9a27ed0e229221aada0cc88d5d6fd58f46f72eb626bd37b8e94efc8"
        :> <<0, 8, 15, 13, 9, 4, 5, 1, 10, 1, 12, 2, 1, 1, 7, 4, 15, 15, 1, 13, 10, 2, 6, 0, 6, 9, 12, 5, 3, 6, 14, 4, 6, 5, 7, 13, 4, 1, 9, 2, 12, 12, 4, 0, 8, 11, 1, 11, 9, 10, 5, 12, 13, 2, 15, 4, 3, 15, 0, 8, 15, 4, 9, 13>>)
    @@
    ("(Some(\"6164e20ac3de15cbe6873d15338ae39392784d729dee7a4530ca5135588ce24e\"), 1)0f953d12a939fe4ef354fff77564841627136a6bf3667b256c4a5cb6768788da140fc148a380d69b8753d296355d450a4c606dfa652482747ab694cd6ac239720f953d12a939fe4ef354fff77564841627136a6bf3667b256c4a5cb6768788da"
        :> <<0, 12, 15, 1, 12, 1, 5, 1, 13, 7, 3, 15, 13, 15, 15, 10, 0, 13, 1, 10, 0, 9, 15, 14, 10, 0, 11, 4, 2, 8, 3, 2, 5, 14, 3, 5, 5, 6, 5, 7, 13, 2, 7, 10, 6, 2, 0, 8, 2, 9, 2, 3, 1, 3, 15, 8, 3, 15, 14, 0, 14, 1, 13, 10>>)))
    @@
    ((("(Some(\"6164e20ac3de15cbe6873d15338ae39392784d729dee7a4530ca5135588ce24e\"), 1)0f953d12a939fe4ef354fff77564841627136a6bf3667b256c4a5cb6768788da140fc148a380d69b8753d296355d450a4c606dfa652482747ab694cd6ac23972140fc148a380d69b8753d296355d450a4c606dfa652482747ab694cd6ac23972"
        :> <<7, 11, 5, 7, 11, 9, 7, 10, 14, 5, 14, 6, 14, 14, 14, 11, 11, 1, 9, 2, 1, 2, 10, 10, 0, 6, 5, 3, 3, 5, 7, 8, 12, 11, 14, 12, 15, 13, 11, 15, 14, 13, 15, 12, 14, 9, 5, 15, 14, 1, 8, 14, 7, 3, 6, 10, 10, 15, 3, 8, 1, 4, 9, 7>>)
    @@
    ("(Some(\"6164e20ac3de15cbe6873d15338ae39392784d729dee7a4530ca5135588ce24e\"), 1)0f953d12a939fe4ef354fff77564841627136a6bf3667b256c4a5cb6768788da140fc148a380d69b8753d296355d450a4c606dfa652482747ab694cd6ac239727d3c95f98bd2b66af7c1d3a16cad13e01562539e02afc9695b86a5416092645f"
        :> <<11, 3, 13, 0, 11, 1, 7, 12, 0, 14, 7, 0, 2, 11, 2, 1, 9, 11, 9, 6, 13, 0, 8, 1, 13, 3, 4, 6, 8, 11, 5, 1, 3, 12, 5, 14, 1, 10, 5, 13, 3, 12, 4, 8, 0, 10, 6, 14, 1, 12, 9, 13, 10, 5, 15, 3, 8, 7, 10, 15, 1, 8, 13, 14>>))
    @@
    (("(Some(\"6164e20ac3de15cbe6873d15338ae39392784d729dee7a4530ca5135588ce24e\"), 1)0f953d12a939fe4ef354fff77564841627136a6bf3667b256c4a5cb6768788da7d3c95f98bd2b66af7c1d3a16cad13e01562539e02afc9695b86a5416092645f"
        :> <<8, 7, 10, 12, 9, 3, 9, 4, 11, 6, 9, 15, 5, 7, 12, 8, 1, 11, 11, 11, 0, 13, 15, 1, 7, 10, 14, 9, 11, 4, 11, 13, 0, 8, 13, 10, 5, 2, 6, 2, 8, 9, 8, 2, 14, 0, 12, 1, 8, 4, 0, 0, 1, 5, 10, 5, 5, 3, 5, 5, 5, 10, 6, 12>>)
    @@
    ("(Some(\"6164e20ac3de15cbe6873d15338ae39392784d729dee7a4530ca5135588ce24e\"), 1)0f953d12a939fe4ef354fff77564841627136a6bf3667b256c4a5cb6768788da7d3c95f98bd2b66af7c1d3a16cad13e01562539e02afc9695b86a5416092645f0af7ba66f9a27ed0e229221aada0cc88d5d6fd58f46f72eb626bd37b8e94efc8"
        :> <<15, 6, 0, 5, 15, 6, 10, 1, 14, 4, 0, 12, 14, 5, 7, 1, 0, 11, 7, 14, 6, 13, 3, 6, 7, 10, 0, 3, 7, 7, 6, 13, 4, 4, 7, 10, 8, 11, 8, 15, 8, 5, 13, 9, 5, 0, 8, 7, 10, 12, 9, 12, 10, 2, 8, 14, 9, 6, 14, 3, 3, 12, 8, 3>>)))))
    @@
    (((("(Some(\"6164e20ac3de15cbe6873d15338ae39392784d729dee7a4530ca5135588ce24e\"), 1)0f953d12a939fe4ef354fff77564841627136a6bf3667b256c4a5cb6768788da7d3c95f98bd2b66af7c1d3a16cad13e01562539e02afc9695b86a5416092645f0f953d12a939fe4ef354fff77564841627136a6bf3667b256c4a5cb6768788da"
        :> <<12, 10, 9, 13, 3, 15, 5, 1, 1, 1, 8, 11, 7, 13, 3, 14, 6, 13, 6, 6, 7, 1, 0, 8, 9, 11, 15, 10, 4, 14, 1, 1, 11, 8, 7, 10, 6, 11, 10, 11, 2, 8, 5, 14, 0, 9, 3, 14, 10, 4, 11, 3, 1, 6, 15, 10, 2, 13, 1, 13, 3, 10, 14, 3>>)
    @@
    (("(Some(\"6164e20ac3de15cbe6873d15338ae39392784d729dee7a4530ca5135588ce24e\"), 1)0f953d12a939fe4ef354fff77564841627136a6bf3667b256c4a5cb6768788da7d3c95f98bd2b66af7c1d3a16cad13e01562539e02afc9695b86a5416092645f140fc148a380d69b8753d296355d450a4c606dfa652482747ab694cd6ac23972"
        :> <<5, 11, 13, 9, 11, 3, 14, 3, 2, 15, 10, 11, 7, 7, 7, 9, 7, 13, 3, 5, 6, 8, 14, 0, 7, 0, 0, 10, 14, 4, 1, 10, 12, 6, 8, 9, 1, 2, 0, 2, 12, 13, 4, 4, 11, 14, 5, 7, 15, 2, 15, 13, 4, 7, 8, 6, 12, 3, 0, 8, 5, 6, 7, 14>>)
    @@
    ("(Some(\"6164e20ac3de15cbe6873d15338ae39392784d729dee7a4530ca5135588ce24e\"), 1)0f953d12a939fe4ef354fff77564841627136a6bf3667b256c4a5cb6768788da7d3c95f98bd2b66af7c1d3a16cad13e01562539e02afc9695b86a5416092645f7d3c95f98bd2b66af7c1d3a16cad13e01562539e02afc9695b86a5416092645f"
        :> <<8, 1, 13, 3, 15, 12, 14, 0, 4, 12, 15, 4, 0, 14, 9, 9, 6, 6, 0, 14, 15, 12, 6, 10, 10, 0, 12, 11, 6, 9, 8, 12, 1, 6, 14, 4, 4, 6, 12, 13, 15, 12, 3, 7, 8, 8, 10, 8, 2, 15, 0, 5, 4, 15, 8, 8, 14, 7, 14, 1, 3, 11, 2, 6>>)))
    @@
    (("(Some(\"6164e20ac3de15cbe6873d15338ae39392784d729dee7a4530ca5135588ce24e\"), 1)140fc148a380d69b8753d296355d450a4c606dfa652482747ab694cd6ac23972"
        :> <<9, 9, 8, 11, 3, 8, 1, 15, 12, 6, 13, 5, 3, 8, 7, 9, 8, 1, 1, 3, 10, 13, 14, 2, 10, 14, 13, 8, 12, 8, 4, 0, 3, 2, 8, 3, 1, 1, 12, 3, 15, 2, 15, 11, 15, 13, 8, 1, 5, 3, 7, 9, 1, 11, 0, 5, 9, 11, 6, 5, 8, 5, 10, 2>>)
    @@
    (("(Some(\"6164e20ac3de15cbe6873d15338ae39392784d729dee7a4530ca5135588ce24e\"), 1)140fc148a380d69b8753d296355d450a4c606dfa652482747ab694cd6ac239720af7ba66f9a27ed0e229221aada0cc88d5d6fd58f46f72eb626bd37b8e94efc8"
        :> <<12, 5, 12, 6, 1, 6, 15, 10, 12, 13, 11, 6, 4, 6, 15, 8, 7, 8, 10, 10, 10, 6, 14, 9, 1, 10, 3, 6, 1, 7, 0, 3, 5, 2, 9, 12, 3, 5, 14, 8, 8, 7, 9, 3, 12, 13, 6, 2, 11, 6, 5, 14, 8, 8, 13, 6, 14, 11, 4, 14, 14, 11, 5, 4>>)
    @@
    ("(Some(\"6164e20ac3de15cbe6873d15338ae39392784d729dee7a4530ca5135588ce24e\"), 1)140fc148a380d69b8753d296355d450a4c606dfa652482747ab694cd6ac239720af7ba66f9a27ed0e229221aada0cc88d5d6fd58f46f72eb626bd37b8e94efc80af7ba66f9a27ed0e229221aada0cc88d5d6fd58f46f72eb626bd37b8e94efc8"
        :> <<3, 13, 5, 4, 12, 7, 6, 12, 8, 14, 13, 2, 3, 5, 11, 13, 8, 9, 9, 10, 2, 0, 15, 3, 15, 8, 12, 6, 3, 5, 6, 7, 12, 5, 6, 14, 15, 4, 13, 8, 1, 10, 15, 12, 8, 13, 4, 13, 10, 9, 1, 9, 14, 5, 6, 13, 13, 4, 9, 5, 11, 11, 2, 9>>))))
    @@
    ((("(Some(\"6164e20ac3de15cbe6873d15338ae39392784d729dee7a4530ca5135588ce24e\"), 1)140fc148a380d69b8753d296355d450a4c606dfa652482747ab694cd6ac239720af7ba66f9a27ed0e229221aada0cc88d5d6fd58f46f72eb626bd37b8e94efc80f953d12a939fe4ef354fff77564841627136a6bf3667b256c4a5cb6768788da"
        :> <<9, 7, 15, 5, 1, 2, 8, 13, 14, 1, 10, 6, 15, 4, 12, 8, 6, 11, 10, 9, 6, 14, 8, 1, 11, 3, 6, 6, 5, 2, 8, 15, 11, 14, 12, 4, 8, 9, 13, 14, 9, 11, 9, 3, 2, 9, 10, 4, 13, 8, 11, 5, 8, 4, 13, 14, 11, 2, 7, 13, 0, 13, 11, 1>>)
    @@
    (("(Some(\"6164e20ac3de15cbe6873d15338ae39392784d729dee7a4530ca5135588ce24e\"), 1)140fc148a380d69b8753d296355d450a4c606dfa652482747ab694cd6ac239720af7ba66f9a27ed0e229221aada0cc88d5d6fd58f46f72eb626bd37b8e94efc8140fc148a380d69b8753d296355d450a4c606dfa652482747ab694cd6ac23972"
        :> <<14, 0, 9, 8, 14, 10, 2, 14, 10, 2, 4, 8, 0, 14, 13, 13, 4, 4, 9, 10, 12, 9, 11, 2, 14, 10, 0, 14, 12, 3, 3, 5, 8, 11, 8, 15, 6, 6, 5, 0, 14, 15, 5, 10, 1, 1, 14, 13, 4, 15, 8, 7, 11, 11, 12, 5, 15, 1, 12, 10, 2, 0, 13, 5>>)
    @@
    ("(Some(\"6164e20ac3de15cbe6873d15338ae39392784d729dee7a4530ca5135588ce24e\"), 1)140fc148a380d69b8753d296355d450a4c606dfa652482747ab694cd6ac239720af7ba66f9a27ed0e229221aada0cc88d5d6fd58f46f72eb626bd37b8e94efc87d3c95f98bd2b66af7c1d3a16cad13e01562539e02afc9695b86a5416092645f"
        :> <<9, 5, 11, 15, 9, 8, 10, 15, 11, 0, 7, 3, 1, 1, 10, 5, 4, 13, 7, 7, 6, 13, 0, 2, 3, 3, 12, 2, 7, 13, 0, 6, 4, 13, 4, 13, 9, 10, 11, 1, 14, 15, 11, 3, 1, 7, 1, 1, 3, 11, 9, 15, 7, 5, 10, 14, 8, 13, 6, 7, 3, 2, 14, 3>>)))
    @@
    ((("(Some(\"6164e20ac3de15cbe6873d15338ae39392784d729dee7a4530ca5135588ce24e\"), 1)140fc148a380d69b8753d296355d450a4c606dfa652482747ab694cd6ac239720f953d12a939fe4ef354fff77564841627136a6bf3667b256c4a5cb6768788da"
        :> <<15, 13, 9, 9, 12, 1, 1, 2, 3, 1, 9, 0, 13, 11, 0, 9, 6, 14, 3, 14, 15, 7, 9, 6, 6, 8, 4, 3, 4, 2, 15, 11, 2, 2, 3, 1, 5, 7, 5, 4, 14, 11, 12, 7, 11, 3, 7, 3, 15, 10, 6, 5, 0, 3, 4, 12, 0, 12, 2, 3, 10, 11, 4, 9>>)
    @@
    ("(Some(\"6164e20ac3de15cbe6873d15338ae39392784d729dee7a4530ca5135588ce24e\"), 1)140fc148a380d69b8753d296355d450a4c606dfa652482747ab694cd6ac239720f953d12a939fe4ef354fff77564841627136a6bf3667b256c4a5cb6768788da0af7ba66f9a27ed0e229221aada0cc88d5d6fd58f46f72eb626bd37b8e94efc8"
        :> <<8, 13, 0, 15, 7, 0, 9, 10, 11, 12, 3, 1, 3, 7, 0, 2, 11, 10, 0, 1, 14, 3, 8, 13, 15, 13, 3, 3, 7, 14, 6, 7, 0, 0, 5, 3, 10, 11, 11, 2, 14, 0, 7, 6, 4, 6, 15, 0, 10, 12, 10, 6, 8, 1, 2, 11, 3, 1, 3, 4, 9, 14, 9, 9>>))
    @@
    (("(Some(\"6164e20ac3de15cbe6873d15338ae39392784d729dee7a4530ca5135588ce24e\"), 1)140fc148a380d69b8753d296355d450a4c606dfa652482747ab694cd6ac239720f953d12a939fe4ef354fff77564841627136a6bf3667b256c4a5cb6768788da0f953d12a939fe4ef354fff77564841627136a6bf3667b256c4a5cb6768788da"
        :> <<14, 14, 15, 13, 11, 4, 15, 15, 6, 15, 7, 8, 15, 11, 15, 13, 2, 0, 15, 11, 10, 3, 14, 1, 13, 4, 6, 6, 14, 5, 9, 0, 2, 6, 2, 1, 7, 8, 11, 8, 3, 0, 3, 10, 2, 7, 6, 15, 1, 11, 3, 13, 11, 5, 13, 5, 15, 3, 11, 10, 7, 11, 15, 1>>)
    @@
    ("(Some(\"6164e20ac3de15cbe6873d15338ae39392784d729dee7a4530ca5135588ce24e\"), 1)140fc148a380d69b8753d296355d450a4c606dfa652482747ab694cd6ac239720f953d12a939fe4ef354fff77564841627136a6bf3667b256c4a5cb6768788da140fc148a380d69b8753d296355d450a4c606dfa652482747ab694cd6ac23972"
        :> <<12, 5, 5, 12, 3, 1, 15, 3, 9, 15, 2, 0, 11, 7, 11, 0, 2, 7, 8, 5, 6, 4, 4, 7, 10, 1, 14, 13, 15, 14, 0, 12, 11, 8, 2, 12, 4, 11, 9, 11, 1, 0, 0, 2, 9, 6, 5, 6, 14, 10, 15, 13, 10, 9, 14, 3, 6, 12, 13, 15, 10, 6, 14, 11>>)))))))
    @@
    (((((("(Some(\"6164e20ac3de15cbe6873d15338ae39392784d729dee7a4530ca5135588ce24e\"), 1)140fc148a380d69b8753d296355d450a4c606dfa652482747ab694cd6ac239720f953d12a939fe4ef354fff77564841627136a6bf3667b256c4a5cb6768788da7d3c95f98bd2b66af7c1d3a16cad13e01562539e02afc9695b86a5416092645f"
        :> <<10, 9, 13, 15, 6, 11, 7, 10, 6, 12, 5, 6, 9, 14, 14, 8, 12, 6, 15, 3, 10, 14, 7, 0, 5, 4, 6, 3, 4, 14, 11, 10, 15, 3, 3, 1, 9, 10, 6, 8, 1, 13, 6, 7, 3, 5, 9, 2, 8, 4, 14, 4, 8, 3, 13, 0, 12, 0, 14, 12, 1, 6, 0, 10>>)
    @@
    (("(Some(\"6164e20ac3de15cbe6873d15338ae39392784d729dee7a4530ca5135588ce24e\"), 1)140fc148a380d69b8753d296355d450a4c606dfa652482747ab694cd6ac23972140fc148a380d69b8753d296355d450a4c606dfa652482747ab694cd6ac23972"
        :> <<3, 2, 14, 9, 3, 14, 3, 12, 12, 2, 8, 3, 12, 15, 14, 4, 8, 15, 9, 5, 11, 8, 5, 6, 13, 2, 5, 2, 8, 6, 4, 3, 9, 1, 11, 7, 11, 5, 0, 4, 2, 5, 2, 15, 4, 6, 9, 14, 8, 6, 5, 9, 7, 4, 8, 9, 2, 1, 7, 13, 7, 8, 15, 0>>)
    @@
    ("(Some(\"6164e20ac3de15cbe6873d15338ae39392784d729dee7a4530ca5135588ce24e\"), 1)140fc148a380d69b8753d296355d450a4c606dfa652482747ab694cd6ac23972140fc148a380d69b8753d296355d450a4c606dfa652482747ab694cd6ac239720af7ba66f9a27ed0e229221aada0cc88d5d6fd58f46f72eb626bd37b8e94efc8"
        :> <<13, 4, 0, 3, 4, 6, 4, 14, 8, 5, 13, 3, 3, 11, 3, 11, 8, 15, 2, 3, 11, 2, 0, 2, 14, 0, 2, 13, 12, 0, 15, 0, 3, 10, 14, 7, 0, 9, 0, 2, 12, 6, 10, 0, 3, 15, 4, 9, 0, 5, 10, 7, 2, 14, 13, 11, 5, 10, 14, 7, 8, 15, 6, 4>>)))
    @@
    (("(Some(\"6164e20ac3de15cbe6873d15338ae39392784d729dee7a4530ca5135588ce24e\"), 1)140fc148a380d69b8753d296355d450a4c606dfa652482747ab694cd6ac23972140fc148a380d69b8753d296355d450a4c606dfa652482747ab694cd6ac239720f953d12a939fe4ef354fff77564841627136a6bf3667b256c4a5cb6768788da"
        :> <<10, 1, 15, 10, 4, 3, 9, 4, 4, 13, 10, 5, 7, 13, 4, 7, 7, 9, 3, 15, 10, 5, 5, 3, 9, 1, 8, 7, 1, 3, 2, 3, 14, 0, 8, 1, 1, 5, 5, 9, 11, 10, 4, 3, 11, 15, 6, 11, 2, 3, 12, 0, 1, 15, 14, 9, 8, 15, 7, 4, 6, 3, 3, 0>>)
    @@
    (("(Some(\"6164e20ac3de15cbe6873d15338ae39392784d729dee7a4530ca5135588ce24e\"), 1)140fc148a380d69b8753d296355d450a4c606dfa652482747ab694cd6ac23972140fc148a380d69b8753d296355d450a4c606dfa652482747ab694cd6ac23972140fc148a380d69b8753d296355d450a4c606dfa652482747ab694cd6ac23972"
        :> <<0, 1, 14, 3, 1, 0, 9, 14, 4, 0, 8, 3, 5, 11, 5, 10, 3, 13, 7, 2, 6, 6, 9, 9, 11, 3, 15, 4, 3, 13, 1, 9, 9, 11, 6, 11, 9, 10, 6, 5, 4, 11, 0, 15, 11, 12, 10, 8, 8, 3, 11, 14, 13, 2, 7, 10, 5, 4, 11, 2, 12, 7, 14, 7>>)
    @@
    ("(Some(\"6164e20ac3de15cbe6873d15338ae39392784d729dee7a4530ca5135588ce24e\"), 1)140fc148a380d69b8753d296355d450a4c606dfa652482747ab694cd6ac23972140fc148a380d69b8753d296355d450a4c606dfa652482747ab694cd6ac239727d3c95f98bd2b66af7c1d3a16cad13e01562539e02afc9695b86a5416092645f"
        :> <<8, 2, 2, 14, 8, 6, 4, 1, 13, 8, 2, 1, 6, 6, 7, 15, 7, 15, 4, 13, 7, 12, 15, 13, 2, 8, 5, 14, 5, 6, 4, 10, 0, 7, 6, 15, 6, 10, 8, 3, 2, 12, 12, 7, 13, 6, 15, 12, 5, 0, 13, 10, 6, 1, 14, 13, 4, 5, 15, 6, 8, 8, 13, 9>>))))
    @@
    ((("(Some(\"6164e20ac3de15cbe6873d15338ae39392784d729dee7a4530ca5135588ce24e\"), 1)140fc148a380d69b8753d296355d450a4c606dfa652482747ab694cd6ac239727d3c95f98bd2b66af7c1d3a16cad13e01562539e02afc9695b86a5416092645f"
        :> <<6, 15, 14, 8, 4, 12, 15, 11, 3, 12, 6, 5, 8, 10, 7, 9, 1, 10, 6, 1, 11, 12, 11, 1, 7, 15, 6, 12, 12, 7, 14, 8, 9, 14, 2, 0, 7, 14, 14, 14, 12, 12, 9, 12, 12, 3, 9, 0, 1, 4, 3, 11, 3, 3, 4, 15, 9, 9, 1, 7, 15, 5, 12, 5>>)
    @@
    (("(Some(\"6164e20ac3de15cbe6873d15338ae39392784d729dee7a4530ca5135588ce24e\"), 1)140fc148a380d69b8753d296355d450a4c606dfa652482747ab694cd6ac239727d3c95f98bd2b66af7c1d3a16cad13e01562539e02afc9695b86a5416092645f0af7ba66f9a27ed0e229221aada0cc88d5d6fd58f46f72eb626bd37b8e94efc8"
        :> <<13, 1, 5, 10, 5, 9, 4, 1, 2, 7, 9, 0, 10, 11, 6, 1, 1, 9, 6, 12, 2, 6, 1, 9, 15, 13, 3, 2, 9, 9, 10, 5, 13, 15, 10, 13, 0, 15, 0, 2, 8, 6, 5, 4, 10, 1, 1, 6, 6, 8, 2, 1, 5, 11, 6, 15, 11, 1, 15, 1, 14, 4, 1, 4>>)
    @@
    ("(Some(\"6164e20ac3de15cbe6873d15338ae39392784d729dee7a4530ca5135588ce24e\"), 1)140fc148a380d69b8753d296355d450a4c606dfa652482747ab694cd6ac239727d3c95f98bd2b66af7c1d3a16cad13e01562539e02afc9695b86a5416092645f0f953d12a939fe4ef354fff77564841627136a6bf3667b256c4a5cb6768788da"
        :> <<5, 6, 8, 1, 5, 4, 9, 4, 9, 5, 3, 15, 13, 8, 1, 2, 2, 2, 15, 2, 3, 10, 3, 2, 15, 15, 2, 0, 14, 11, 3, 1, 14, 14, 15, 3, 15, 7, 1, 5, 3, 4, 1, 4, 15, 2, 8, 15, 5, 7, 13, 2, 12, 7, 11, 6, 9, 12, 10, 13, 15, 12, 8, 1>>)))
    @@
    ((("(Some(\"6164e20ac3de15cbe6873d15338ae39392784d729dee7a4530ca5135588ce24e\"), 1)140fc148a380d69b8753d296355d450a4c606dfa652482747ab694cd6ac239727d3c95f98bd2b66af7c1d3a16cad13e01562539e02afc9695b86a5416092645f140fc148a380d69b8753d296355d450a4c606dfa652482747ab694cd6ac23972"
        :> <<6, 14, 14, 1, 13, 14, 14, 10, 14, 1, 6, 5, 4, 5, 11, 9, 2, 7, 7, 9, 3, 3, 13, 3, 12, 0, 7, 1, 2, 5, 1, 4, 4, 13, 14, 0, 7, 7, 10, 2, 2, 6, 14, 4, 14, 15, 6, 10, 4, 11, 14, 1, 7, 8, 9, 7, 14, 8, 1, 4, 13, 9, 15, 6>>)
    @@
    ("(Some(\"6164e20ac3de15cbe6873d15338ae39392784d729dee7a4530ca5135588ce24e\"), 1)140fc148a380d69b8753d296355d450a4c606dfa652482747ab694cd6ac239727d3c95f98bd2b66af7c1d3a16cad13e01562539e02afc9695b86a5416092645f7d3c95f98bd2b66af7c1d3a16cad13e01562539e02afc9695b86a5416092645f"
        :> <<7, 2, 7, 14, 1, 15, 10, 9, 0, 13, 12, 3, 6, 2, 0, 2, 2, 9, 5, 11, 3, 12, 6, 15, 11, 3, 9, 2, 3, 6, 10, 4, 8, 8, 12, 3, 14, 3, 8, 15, 15, 6, 10, 11, 14, 5, 13, 15, 1, 7, 14, 14, 7, 15, 15, 6, 9, 9, 10, 5, 4, 11, 7, 14>>))
    @@
    (("(Some(\"6164e20ac3de15cbe6873d15338ae39392784d729dee7a4530ca5135588ce24e\"), 1)7d3c95f98bd2b66af7c1d3a16cad13e01562539e02afc9695b86a5416092645f"
        :> <<14, 7, 6, 6, 6, 2, 14, 9, 6, 3, 9, 12, 4, 12, 1, 8, 13, 13, 3, 6, 2, 15, 5, 6, 9, 0, 1, 7, 12, 2, 2, 8, 10, 8, 12, 7, 13, 1, 0, 4, 9, 12, 1, 13, 13, 11, 8, 11, 2, 7, 9, 6, 3, 9, 14, 6, 10, 12, 0, 0, 11, 13, 6, 11>>)
    @@
    ("(Some(\"6164e20ac3de15cbe6873d15338ae39392784d729dee7a4530ca5135588ce24e\"), 1)7d3c95f98bd2b66af7c1d3a16cad13e01562539e02afc9695b86a5416092645f0af7ba66f9a27ed0e229221aada0cc88d5d6fd58f46f72eb626bd37b8e94efc8"
        :> <<2, 1, 0, 0, 8, 3, 7, 0, 2, 11, 11, 14, 2, 7, 2, 11, 3, 15, 12, 12, 8, 13, 10, 13, 12, 3, 15, 1, 7, 13, 3, 14, 1, 8, 10, 15, 12, 0, 3, 3, 6, 4, 3, 11, 15, 7, 9, 12, 6, 10, 5, 7, 11, 14, 0, 12, 11, 10, 1, 6, 14, 5, 6, 15>>)))))
    @@
    (((("(Some(\"6164e20ac3de15cbe6873d15338ae39392784d729dee7a4530ca5135588ce24e\"), 1)7d3c95f98bd2b66af7c1d3a16cad13e01562539e02afc9695b86a5416092645f0af7ba66f9a27ed0e229221aada0cc88d5d6fd58f46f72eb626bd37b8e94efc80af7ba66f9a27ed0e229221aada0cc88d5d6fd58f46f72eb626bd37b8e94efc8"
        :> <<2, 14, 10, 6, 7, 9, 12, 10, 6, 4, 6, 9, 13, 7, 3, 2, 11, 0, 6, 7, 3, 15, 10, 2, 13, 4, 6, 13, 0, 4, 11, 0, 7, 15, 5, 14, 15, 10, 12, 7, 0, 0, 7, 0, 6, 9, 1, 13, 13, 15, 2, 0, 2, 8, 14, 0, 8, 0, 2, 8, 8, 5, 15, 0>>)
    @@
    (("(Some(\"6164e20ac3de15cbe6873d15338ae39392784d729dee7a4530ca5135588ce24e\"), 1)7d3c95f98bd2b66af7c1d3a16cad13e01562539e02afc9695b86a5416092645f0af7ba66f9a27ed0e229221aada0cc88d5d6fd58f46f72eb626bd37b8e94efc80f953d12a939fe4ef354fff77564841627136a6bf3667b256c4a5cb6768788da"
        :> <<14, 1, 1, 11, 2, 4, 4, 8, 13, 6, 8, 3, 1, 11, 0, 4, 8, 9, 10, 6, 3, 3, 5, 9, 7, 8, 1, 15, 4, 6, 7, 14, 5, 5, 1, 14, 5, 8, 11, 8, 8, 10, 5, 0, 15, 13, 11, 2, 5, 1, 14, 7, 13, 5, 2, 1, 13, 12, 6, 10, 4, 12, 6, 11>>)
    @@
    ("(Some(\"6164e20ac3de15cbe6873d15338ae39392784d729dee7a4530ca5135588ce24e\"), 1)7d3c95f98bd2b66af7c1d3a16cad13e01562539e02afc9695b86a5416092645f0af7ba66f9a27ed0e229221aada0cc88d5d6fd58f46f72eb626bd37b8e94efc8140fc148a380d69b8753d296355d450a4c606dfa652482747ab694cd6ac23972"
        :> <<12, 12, 10, 3, 14, 0, 15, 14, 6, 3, 12, 9, 12, 13, 4, 15, 6, 14, 4, 7, 6, 5, 6, 8, 6, 3, 12, 13, 3, 11, 15, 4, 10, 7, 13, 9, 0, 3, 14, 0, 14, 6, 4, 1, 14, 14, 4, 10, 1, 4, 15, 5, 14, 12, 5, 11, 5, 5, 14, 14, 5, 7, 8, 7>>)))
    @@
    (("(Some(\"6164e20ac3de15cbe6873d15338ae39392784d729dee7a4530ca5135588ce24e\"), 1)7d3c95f98bd2b66af7c1d3a16cad13e01562539e02afc9695b86a5416092645f0af7ba66f9a27ed0e229221aada0cc88d5d6fd58f46f72eb626bd37b8e94efc87d3c95f98bd2b66af7c1d3a16cad13e01562539e02afc9695b86a5416092645f"
        :> <<5, 9, 9, 9, 13, 4, 10, 10, 13, 11, 3, 6, 7, 13, 4, 12, 15, 10, 8, 2, 6, 11, 0, 11, 3, 7, 15, 2, 13, 15, 1, 13, 10, 12, 4, 6, 7, 14, 6, 15, 11, 15, 15, 7, 3, 2, 6, 6, 2, 0, 1, 6, 15, 14, 6, 3, 3, 7, 12, 11, 1, 1, 1, 6>>)
    @@
    (("(Some(\"6164e20ac3de15cbe6873d15338ae39392784d729dee7a4530ca5135588ce24e\"), 1)7d3c95f98bd2b66af7c1d3a16cad13e01562539e02afc9695b86a5416092645f0f953d12a939fe4ef354fff77564841627136a6bf3667b256c4a5cb6768788da"
        :> <<6, 10, 12, 14, 15, 1, 10, 8, 10, 12, 9, 15, 4, 8, 5, 8, 10, 14, 6, 6, 8, 10, 11, 13, 3, 5, 8, 5, 4, 10, 4, 12, 3, 13, 1, 1, 4, 5, 0, 8, 7, 13, 5, 15, 11, 6, 0, 1, 0, 3, 13, 4, 13, 12, 11, 5, 14, 1, 7, 1, 4, 10, 0, 1>>)
    @@
    ("(Some(\"6164e20ac3de15cbe6873d15338ae39392784d729dee7a4530ca5135588ce24e\"), 1)7d3c95f98bd2b66af7c1d3a16cad13e01562539e02afc9695b86a5416092645f0f953d12a939fe4ef354fff77564841627136a6bf3667b256c4a5cb6768788da0af7ba66f9a27ed0e229221aada0cc88d5d6fd58f46f72eb626bd37b8e94efc8"
        :> <<8, 2, 7, 3, 3, 9, 15, 13, 3, 12, 14, 6, 10, 11, 11, 2, 14, 8, 13, 8, 5, 3, 2, 1, 14, 6, 14, 9, 14, 3, 12, 8, 0, 9, 9, 0, 1, 8, 2, 15, 6, 9, 2, 9, 4, 12, 2, 7, 2, 9, 11, 13, 5, 5, 2, 11, 14, 10, 3, 10, 7, 2, 6, 4>>))))
    @@
    ((("(Some(\"6164e20ac3de15cbe6873d15338ae39392784d729dee7a4530ca5135588ce24e\"), 1)7d3c95f98bd2b66af7c1d3a16cad13e01562539e02afc9695b86a5416092645f0f953d12a939fe4ef354fff77564841627136a6bf3667b256c4a5cb6768788da0f953d12a939fe4ef354fff77564841627136a6bf3667b256c4a5cb6768788da"
        :> <<15, 13, 2, 1, 0, 4, 7, 5, 10, 8, 10, 3, 12, 4, 1, 11, 2, 14, 3, 11, 8, 10, 15, 2, 11, 7, 1, 4, 9, 14, 11, 1, 3, 1, 3, 8, 15, 13, 2, 9, 4, 13, 7, 9, 3, 6, 13, 1, 3, 1, 9, 13, 10, 11, 6, 5, 5, 6, 5, 8, 6, 5, 11, 10>>)
    @@
    (("(Some(\"6164e20ac3de15cbe6873d15338ae39392784d729dee7a4530ca5135588ce24e\"), 1)7d3c95f98bd2b66af7c1d3a16cad13e01562539e02afc9695b86a5416092645f0f953d12a939fe4ef354fff77564841627136a6bf3667b256c4a5cb6768788da140fc148a380d69b8753d296355d450a4c606dfa652482747ab694cd6ac23972"
        :> <<0, 4, 15, 0, 1, 4, 2, 11, 4, 4, 8, 1, 3, 10, 13, 15, 6, 14, 11, 14, 10, 1, 9, 12, 0, 15, 11, 7, 3, 14, 14, 10, 9, 12, 13, 14, 9, 3, 9, 7, 15, 0, 10, 4, 13, 6, 4, 15, 1, 13, 1, 8, 14, 2, 6, 1, 11, 12, 2, 2, 12, 4, 14, 13>>)
    @@
    ("(Some(\"6164e20ac3de15cbe6873d15338ae39392784d729dee7a4530ca5135588ce24e\"), 1)7d3c95f98bd2b66af7c1d3a16cad13e01562539e02afc9695b86a5416092645f0f953d12a939fe4ef354fff77564841627136a6bf3667b256c4a5cb6768788da7d3c95f98bd2b66af7c1d3a16cad13e01562539e02afc9695b86a5416092645f"
        :> <<1, 12, 14, 1, 4, 12, 12, 13, 9, 3, 15, 4, 9, 0, 1, 13, 6, 8, 2, 4, 0, 7, 1, 14, 13, 8, 1, 13, 2, 14, 5, 13, 15, 1, 13, 11, 7, 14, 6, 5, 1, 6, 9, 9, 12, 11, 9, 3, 8, 4, 9, 10, 3, 15, 2, 3, 0, 8, 8, 12, 2, 7, 9, 15>>)))
    @@
    ((("(Some(\"6164e20ac3de15cbe6873d15338ae39392784d729dee7a4530ca5135588ce24e\"), 1)7d3c95f98bd2b66af7c1d3a16cad13e01562539e02afc9695b86a5416092645f140fc148a380d69b8753d296355d450a4c606dfa652482747ab694cd6ac23972"
        :> <<12, 5, 13, 15, 0, 8, 12, 7, 8, 3, 4, 5, 9, 1, 12, 2, 12, 10, 5, 1, 9, 1, 11, 0, 11, 15, 9, 11, 7, 7, 9, 10, 4, 1, 12, 14, 15, 13, 0, 11, 4, 2, 4, 4, 0, 12, 0, 9, 8, 5, 15, 0, 1, 13, 9, 14, 7, 3, 15, 6, 4, 4, 15, 7>>)
    @@
    ("(Some(\"6164e20ac3de15cbe6873d15338ae39392784d729dee7a4530ca5135588ce24e\"), 1)7d3c95f98bd2b66af7c1d3a16cad13e01562539e02afc9695b86a5416092645f140fc148a380d69b8753d296355d450a4c606dfa652482747ab694cd6ac239720af7ba66f9a27ed0e229221aada0cc88d5d6fd58f46f72eb626bd37b8e94efc8"
        :> <<1, 14, 5, 5, 12, 14, 14, 6, 3, 1, 10, 5, 2, 9, 10, 14, 10, 7, 13, 1, 8, 3, 3, 13, 8, 7, 8, 15, 5, 6, 5, 15, 9, 12, 4, 0, 6, 15, 3, 4, 2, 0, 15, 5, 12, 9, 0, 9, 6, 8, 2, 6, 7, 9, 5, 1, 14, 13, 3, 6, 15, 7, 3, 11>>))
    @@
    (("(Some(\"6164e20ac3de15cbe6873d15338ae39392784d729dee7a4530ca5135588ce24e\"), 1)7d3c95f98bd2b66af7c1d3a16cad13e01562539e02afc9695b86a5416092645f140fc148a380d69b8753d296355d450a4c606dfa652482747ab694cd6ac239720f953d12a939fe4ef354fff77564841627136a6bf3667b256c4a5cb6768788da"
        :> <<5, 2, 8, 14, 0, 6, 4, 11, 15, 5, 0, 14, 11, 10, 8, 11, 5, 8, 4, 12, 6, 5, 4, 9, 4, 5, 7, 2, 8, 1, 2, 2, 11, 1, 12, 0, 1, 7, 0, 6, 13, 12, 5, 10, 7, 4, 8, 3, 0, 4, 5, 5, 10, 13, 11, 8, 10, 4, 5, 8, 11, 4, 13, 14>>)
    @@
    ("(Some(\"6164e20ac3de15cbe6873d15338ae39392784d729dee7a4530ca5135588ce24e\"), 1)7d3c95f98bd2b66af7c1d3a16cad13e01562539e02afc9695b86a5416092645f140fc148a380d69b8753d296355d450a4c606dfa652482747ab694cd6ac23972140fc148a380d69b8753d296355d450a4c606dfa652482747ab694cd6ac23972"
        :> <<5, 13, 2, 0, 0, 6, 6, 8, 8, 13, 14, 8, 15, 0, 5, 3, 3, 3, 3, 9, 15, 8, 0, 0, 4, 15, 9, 3, 9, 12, 6, 6, 14, 7, 15, 7, 15, 2, 10, 12, 7, 10, 15, 2, 9, 13, 9, 12, 12, 14, 7, 0, 5, 7, 5, 6, 2, 13, 7, 3, 10, 3, 14, 0>>))))))
    @@
    ((((("(Some(\"6164e20ac3de15cbe6873d15338ae39392784d729dee7a4530ca5135588ce24e\"), 1)7d3c95f98bd2b66af7c1d3a16cad13e01562539e02afc9695b86a5416092645f140fc148a380d69b8753d296355d450a4c606dfa652482747ab694cd6ac239727d3c95f98bd2b66af7c1d3a16cad13e01562539e02afc9695b86a5416092645f"
        :> <<11, 5, 7, 7, 3, 5, 15, 4, 8, 1, 8, 12, 6, 5, 2, 3, 13, 7, 0, 4, 2, 3, 1, 1, 5, 6, 14, 9, 1, 12, 13, 1, 10, 5, 0, 11, 6, 5, 9, 4, 6, 3, 13, 8, 2, 0, 11, 1, 0, 0, 3, 3, 15, 2, 12, 15, 1, 0, 7, 3, 12, 14, 1, 9>>)
    @@
    (("(Some(\"6164e20ac3de15cbe6873d15338ae39392784d729dee7a4530ca5135588ce24e\"), 1)7d3c95f98bd2b66af7c1d3a16cad13e01562539e02afc9695b86a5416092645f7d3c95f98bd2b66af7c1d3a16cad13e01562539e02afc9695b86a5416092645f"
        :> <<7, 1, 3, 7, 3, 13, 3, 5, 11, 12, 13, 3, 10, 8, 2, 11, 8, 8, 14, 11, 2, 15, 0, 1, 4, 6, 13, 11, 15, 13, 7, 3, 2, 1, 0, 9, 15, 8, 2, 10, 10, 5, 15, 7, 4, 7, 5, 11, 7, 10, 2, 12, 9, 5, 12, 4, 0, 6, 6, 0, 8, 9, 0, 9>>)
    @@
    ("(Some(\"6164e20ac3de15cbe6873d15338ae39392784d729dee7a4530ca5135588ce24e\"), 1)7d3c95f98bd2b66af7c1d3a16cad13e01562539e02afc9695b86a5416092645f7d3c95f98bd2b66af7c1d3a16cad13e01562539e02afc9695b86a5416092645f0af7ba66f9a27ed0e229221aada0cc88d5d6fd58f46f72eb626bd37b8e94efc8"
        :> <<2, 9, 14, 7, 9, 4, 10, 1, 2, 6, 5, 3, 14, 7, 13, 5, 1, 5, 6, 4, 5, 0, 5, 15, 8, 4, 9, 13, 1, 13, 4, 12, 5, 4, 9, 3, 10, 7, 12, 6, 6, 13, 2, 2, 8, 13, 6, 13, 1, 10, 5, 9, 0, 1, 9, 9, 13, 13, 15, 5, 5, 7, 10, 7>>)))
    @@
    (("(Some(\"6164e20ac3de15cbe6873d15338ae39392784d729dee7a4530ca5135588ce24e\"), 1)7d3c95f98bd2b66af7c1d3a16cad13e01562539e02afc9695b86a5416092645f7d3c95f98bd2b66af7c1d3a16cad13e01562539e02afc9695b86a5416092645f0f953d12a939fe4ef354fff77564841627136a6bf3667b256c4a5cb6768788da"
        :> <<15, 11, 0, 10, 10, 6, 15, 4, 1, 1, 5, 11, 2, 6, 3, 9, 5, 10, 7, 7, 0, 1, 10, 4, 3, 13, 11, 6, 2, 13, 0, 14, 2, 4, 5, 13, 14, 1, 15, 6, 9, 7, 8, 7, 1, 3, 0, 3, 8, 12, 15, 8, 11, 0, 14, 12, 14, 4, 2, 3, 6, 9, 1, 2>>)
    @@
    (("(Some(\"6164e20ac3de15cbe6873d15338ae39392784d729dee7a4530ca5135588ce24e\"), 1)7d3c95f98bd2b66af7c1d3a16cad13e01562539e02afc9695b86a5416092645f7d3c95f98bd2b66af7c1d3a16cad13e01562539e02afc9695b86a5416092645f140fc148a380d69b8753d296355d450a4c606dfa652482747ab694cd6ac23972"
        :> <<5, 14, 4, 10, 9, 0, 6, 4, 2, 4, 15, 7, 8, 5, 4, 7, 0, 3, 0, 14, 15, 12, 8, 12, 12, 13, 9, 2, 10, 2, 0, 12, 1, 2, 4, 3, 12, 7, 8, 10, 13, 1, 12, 15, 8, 7, 9, 5, 14, 5, 8, 15, 6, 15, 8, 3, 3, 4, 11, 0, 12, 12, 3, 15>>)
    @@
    ("(Some(\"6164e20ac3de15cbe6873d15338ae39392784d729dee7a4530ca5135588ce24e\"), 1)7d3c95f98bd2b66af7c1d3a16cad13e01562539e02afc9695b86a5416092645f7d3c95f98bd2b66af7c1d3a16cad13e01562539e02afc9695b86a5416092645f7d3c95f98bd2b66af7c1d3a16cad13e01562539e02afc9695b86a5416092645f"
        :> <<1, 7, 13, 1, 2, 0, 14, 6, 5, 5, 11, 9, 10, 12, 4, 6, 5, 10, 9, 11, 7, 10, 11, 0, 10, 1, 5, 6, 11, 8, 8, 1, 9, 10, 8, 5, 14, 7, 10, 11, 2, 2, 0, 15, 13, 4, 4, 7, 10, 11, 7, 7, 10, 6, 8, 11, 13, 5, 14, 4, 10, 5, 5, 8>>))))
    @@
    ((("(Some(\"6164e20ac3de15cbe6873d15338ae39392784d729dee7a4530ca5135588ce24e\"), 2)"
        :> <<1, 7, 12, 12, 15, 8, 1, 11, 1, 12, 9, 8, 1, 5, 8, 6, 12, 1, 13, 8, 5, 1, 8, 6, 0, 6, 12, 9, 8, 2, 14, 14, 15, 0, 8, 10, 0, 11, 9, 15, 10, 14, 3, 1, 1, 4, 1, 10, 12, 3, 7, 10, 7, 9, 3, 4, 5, 7, 11, 8, 14, 8, 12, 5>>)
    @@
    (("(Some(\"6164e20ac3de15cbe6873d15338ae39392784d729dee7a4530ca5135588ce24e\"), 2)0af7ba66f9a27ed0e229221aada0cc88d5d6fd58f46f72eb626bd37b8e94efc8"
        :> <<9, 6, 6, 7, 4, 2, 14, 14, 13, 12, 0, 12, 11, 15, 12, 12, 10, 10, 11, 14, 0, 5, 0, 3, 8, 4, 4, 2, 9, 14, 6, 6, 8, 4, 5, 11, 13, 9, 1, 15, 9, 3, 12, 10, 5, 1, 10, 3, 11, 1, 8, 7, 7, 6, 12, 13, 14, 9, 4, 5, 2, 6, 10, 6>>)
    @@
    ("(Some(\"6164e20ac3de15cbe6873d15338ae39392784d729dee7a4530ca5135588ce24e\"), 2)0af7ba66f9a27ed0e229221aada0cc88d5d6fd58f46f72eb626bd37b8e94efc80af7ba66f9a27ed0e229221aada0cc88d5d6fd58f46f72eb626bd37b8e94efc8"
        :> <<11, 13, 5, 4, 8, 0, 9, 8, 15, 7, 4, 10, 12, 13, 8, 0, 7, 7, 14, 4, 7, 8, 6, 6, 11, 9, 7, 12, 9, 2, 0, 1, 9, 10, 6, 11, 3, 1, 4, 11, 5, 11, 5, 2, 12, 12, 10, 0, 1, 15, 11, 8, 12, 9, 5, 12, 10, 9, 7, 12, 2, 3, 2, 14>>)))
    @@
    ((("(Some(\"6164e20ac3de15cbe6873d15338ae39392784d729dee7a4530ca5135588ce24e\"), 2)0af7ba66f9a27ed0e229221aada0cc88d5d6fd58f46f72eb626bd37b8e94efc80af7ba66f9a27ed0e229221aada0cc88d5d6fd58f46f72eb626bd37b8e94efc80af7ba66f9a27ed0e229221aada0cc88d5d6fd58f46f72eb626bd37b8e94efc8"
        :> <<14, 2, 11, 5, 5, 8, 8, 0, 2, 13, 3, 5, 15, 12, 14, 1, 1, 6, 6, 8, 10, 2, 0, 7, 8, 4, 11, 15, 7, 14, 13, 0, 7, 14, 3, 13, 12, 7, 14, 4, 5, 7, 11, 5, 7, 10, 3, 13, 7, 6, 10, 7, 8, 8, 2, 8, 1, 0, 3, 14, 6, 7, 0, 8>>)
    @@
    ("(Some(\"6164e20ac3de15cbe6873d15338ae39392784d729dee7a4530ca5135588ce24e\"), 2)0af7ba66f9a27ed0e229221aada0cc88d5d6fd58f46f72eb626bd37b8e94efc80af7ba66f9a27ed0e229221aada0cc88d5d6fd58f46f72eb626bd37b8e94efc80f953d12a939fe4ef354fff77564841627136a6bf3667b256c4a5cb6768788da"
        :> <<2, 0, 12, 13, 12, 8, 2, 12, 6, 12, 10, 0, 15, 1, 14, 5, 6, 10, 4, 10, 13, 15, 7, 4, 6, 14, 13, 2, 0, 2, 2, 10, 7, 4, 0, 6, 12, 15, 13, 2, 1, 5, 8, 11, 7, 6, 15, 15, 0, 1, 5, 9, 3, 10, 8, 14, 8, 7, 15, 10, 8, 8, 9, 12>>))
    @@
    (("(Some(\"6164e20ac3de15cbe6873d15338ae39392784d729dee7a4530ca5135588ce24e\"), 2)0af7ba66f9a27ed0e229221aada0cc88d5d6fd58f46f72eb626bd37b8e94efc80af7ba66f9a27ed0e229221aada0cc88d5d6fd58f46f72eb626bd37b8e94efc8140fc148a380d69b8753d296355d450a4c606dfa652482747ab694cd6ac23972"
        :> <<15, 14, 13, 13, 9, 10, 13, 11, 0, 9, 6, 10, 7, 5, 13, 5, 4, 4, 1, 7, 10, 5, 7, 5, 7, 1, 14, 13, 9, 10, 1, 10, 3, 5, 3, 1, 2, 10, 12, 6, 5, 8, 0, 2, 9, 15, 0, 7, 1, 5, 6, 12, 13, 3, 8, 4, 12, 2, 4, 6, 2, 15, 12, 6>>)
    @@
    ("(Some(\"6164e20ac3de15cbe6873d15338ae39392784d729dee7a4530ca5135588ce24e\"), 2)0af7ba66f9a27ed0e229221aada0cc88d5d6fd58f46f72eb626bd37b8e94efc80af7ba66f9a27ed0e229221aada0cc88d5d6fd58f46f72eb626bd37b8e94efc87d3c95f98bd2b66af7c1d3a16cad13e01562539e02afc9695b86a5416092645f"
        :> <<1, 9, 9, 9, 10, 8, 11, 13, 10, 12, 10, 15, 14, 3, 14, 6, 12, 8, 15, 6, 14, 13, 6, 15, 14, 5, 4, 12, 11, 15, 11, 14, 5, 6, 5, 10, 3, 12, 8, 15, 2, 6, 0, 10, 5, 1, 10, 0, 8, 12, 1, 11, 12, 3, 3, 3, 15, 0, 8, 2, 13, 11, 11, 8>>)))))
    @@
    (((("(Some(\"6164e20ac3de15cbe6873d15338ae39392784d729dee7a4530ca5135588ce24e\"), 2)0af7ba66f9a27ed0e229221aada0cc88d5d6fd58f46f72eb626bd37b8e94efc80f953d12a939fe4ef354fff77564841627136a6bf3667b256c4a5cb6768788da"
        :> <<8, 0, 1, 11, 12, 6, 7, 3, 10, 12, 7, 0, 11, 12, 13, 5, 7, 9, 2, 10, 14, 6, 10, 9, 5, 9, 15, 13, 2, 11, 1, 4, 13, 9, 2, 9, 0, 2, 2, 8, 4, 5, 12, 10, 12, 7, 5, 12, 7, 11, 6, 5, 5, 7, 7, 6, 0, 9, 3, 15, 8, 1, 10, 11>>)
    @@
    (("(Some(\"6164e20ac3de15cbe6873d15338ae39392784d729dee7a4530ca5135588ce24e\"), 2)0af7ba66f9a27ed0e229221aada0cc88d5d6fd58f46f72eb626bd37b8e94efc80f953d12a939fe4ef354fff77564841627136a6bf3667b256c4a5cb6768788da0af7ba66f9a27ed0e229221aada0cc88d5d6fd58f46f72eb626bd37b8e94efc8"
        :> <<8, 15, 8, 13, 14, 15, 12, 13, 7, 2, 8, 3, 1, 10, 3, 8, 0, 3, 7, 1, 2, 4, 0, 14, 3, 11, 10, 0, 8, 10, 11, 7, 5, 4, 2, 11, 5, 13, 11, 9, 13, 12, 1, 2, 7, 15, 5, 8, 4, 13, 10, 6, 4, 13, 11, 3, 1, 12, 14, 2, 6, 3, 7, 8>>)
    @@
    ("(Some(\"6164e20ac3de15cbe6873d15338ae39392784d729dee7a4530ca5135588ce24e\"), 2)0af7ba66f9a27ed0e229221aada0cc88d5d6fd58f46f72eb626bd37b8e94efc80f953d12a939fe4ef354fff77564841627136a6bf3667b256c4a5cb6768788da0f953d12a939fe4ef354fff77564841627136a6bf3667b256c4a5cb6768788da"
        :> <<7, 2, 3, 13, 3, 5, 12, 1, 7, 14, 6, 11, 12, 12, 5, 5, 10, 0, 13, 9, 7, 9, 3, 2, 5, 10, 15, 9, 1, 14, 0, 9, 7, 3, 0, 7, 2, 11, 7, 13, 0, 8, 5, 0, 3, 13, 3, 1, 9, 7, 5, 7, 2, 3, 4, 12, 0, 9, 1, 15, 14, 14, 2, 1>>)))
    @@
    ((("(Some(\"6164e20ac3de15cbe6873d15338ae39392784d729dee7a4530ca5135588ce24e\"), 2)0af7ba66f9a27ed0e229221aada0cc88d5d6fd58f46f72eb626bd37b8e94efc80f953d12a939fe4ef354fff77564841627136a6bf3667b256c4a5cb6768788da140fc148a380d69b8753d296355d450a4c606dfa652482747ab694cd6ac23972"
        :> <<5, 15, 6, 6, 10, 8, 2, 11, 1, 6, 10, 7, 0, 15, 12, 3, 6, 13, 12, 8, 1, 12, 4, 13, 4, 5, 4, 7, 6, 13, 3, 4, 9, 9, 5, 11, 2, 11, 10, 11, 1, 15, 14, 7, 4, 14, 2, 6, 8, 1, 12, 11, 13, 4, 3, 6, 11, 15, 7, 2, 4, 2, 12, 10>>)
    @@
    ("(Some(\"6164e20ac3de15cbe6873d15338ae39392784d729dee7a4530ca5135588ce24e\"), 2)0af7ba66f9a27ed0e229221aada0cc88d5d6fd58f46f72eb626bd37b8e94efc80f953d12a939fe4ef354fff77564841627136a6bf3667b256c4a5cb6768788da7d3c95f98bd2b66af7c1d3a16cad13e01562539e02afc9695b86a5416092645f"
        :> <<9, 6, 5, 2, 10, 2, 14, 13, 12, 3, 11, 2, 2, 6, 5, 14, 13, 8, 0, 12, 8, 15, 12, 1, 3, 14, 14, 10, 4, 15, 15, 11, 7, 4, 2, 0, 8, 3, 8, 15, 10, 7, 6, 6, 6, 9, 10, 4, 7, 14, 14, 5, 4, 14, 5, 3, 14, 0, 0, 5, 7, 6, 4, 9>>))
    @@
    (("(Some(\"6164e20ac3de15cbe6873d15338ae39392784d729dee7a4530ca5135588ce24e\"), 2)0af7ba66f9a27ed0e229221aada0cc88d5d6fd58f46f72eb626bd37b8e94efc8140fc148a380d69b8753d296355d450a4c606dfa652482747ab694cd6ac23972"
        :> <<5, 13, 7, 15, 5, 2, 9, 12, 6, 8, 12, 0, 0, 10, 1, 0, 0, 8, 15, 0, 8, 10, 1, 13, 1, 12, 15, 10, 15, 8, 8, 5, 9, 7, 6, 7, 11, 14, 1, 3, 15, 3, 12, 14, 5, 15, 14, 7, 7, 7, 9, 8, 7, 0, 9, 12, 1, 13, 3, 12, 14, 13, 12, 8>>)
    @@
    ("(Some(\"6164e20ac3de15cbe6873d15338ae39392784d729dee7a4530ca5135588ce24e\"), 2)0af7ba66f9a27ed0e229221aada0cc88d5d6fd58f46f72eb626bd37b8e94efc8140fc148a380d69b8753d296355d450a4c606dfa652482747ab694cd6ac239720af7ba66f9a27ed0e229221aada0cc88d5d6fd58f46f72eb626bd37b8e94efc8"
        :> <<2, 3, 4, 12, 8, 0, 4, 3, 10, 10, 11, 0, 4, 15, 12, 14, 2, 10, 4, 0, 3, 10, 2, 6, 11, 12, 7, 6, 10, 2, 3, 13, 2, 7, 0, 12, 4, 10, 4, 14, 13, 3, 12, 15, 6, 4, 3, 10, 15, 9, 2, 8, 0, 7, 10, 13, 15, 0, 3, 10, 8, 11, 8, 11>>))))
    @@
    ((("(Some(\"6164e20ac3de15cbe6873d15338ae39392784d729dee7a4530ca5135588ce24e\"), 2)0af7ba66f9a27ed0e229221aada0cc88d5d6fd58f46f72eb626bd37b8e94efc8140fc148a380d69b8753d296355d450a4c606dfa652482747ab694cd6ac239720f953d12a939fe4ef354fff77564841627136a6bf3667b256c4a5cb6768788da"
        :> <<13, 9, 12, 1, 3, 3, 10, 1, 9, 3, 4, 15, 1, 14, 9, 11, 8, 15, 1, 0, 4, 11, 5, 8, 12, 0, 9, 1, 12, 2, 10, 15, 6, 11, 13, 10, 1, 3, 0, 10, 11, 13, 10, 13, 3, 7, 3, 9, 14, 2, 12, 0, 6, 1, 1, 13, 15, 4, 4, 8, 6, 2, 12, 7>>)
    @@
    (("(Some(\"6164e20ac3de15cbe6873d15338ae39392784d729dee7a4530ca5135588ce24e\"), 2)0af7ba66f9a27ed0e229221aada0cc88d5d6fd58f46f72eb626bd37b8e94efc8140fc148a380d69b8753d296355d450a4c606dfa652482747ab694cd6ac23972140fc148a380d69b8753d296355d450a4c606dfa652482747ab694cd6ac23972"
        :> <<0, 2, 15, 11, 11, 7, 6, 1, 8, 2, 10, 13, 13, 2, 7, 11, 14, 13, 9, 14, 6, 3, 6, 13, 14, 1, 9, 14, 10, 7, 2, 7, 15, 14, 11, 1, 15, 3, 0, 0, 2, 6, 8, 4, 3, 9, 4, 13, 9, 10, 8, 8, 8, 13, 10, 0, 3, 9, 4, 13, 15, 10, 13, 10>>)
    @@
    ("(Some(\"6164e20ac3de15cbe6873d15338ae39392784d729dee7a4530ca5135588ce24e\"), 2)0af7ba66f9a27ed0e229221aada0cc88d5d6fd58f46f72eb626bd37b8e94efc8140fc148a380d69b8753d296355d450a4c606dfa652482747ab694cd6ac239727d3c95f98bd2b66af7c1d3a16cad13e01562539e02afc9695b86a5416092645f"
        :> <<9, 5, 13, 15, 9, 4, 0, 4, 13, 10, 9, 7, 0, 9, 3, 1, 11, 15, 3, 13, 11, 1, 5, 12, 3, 15, 14, 4, 5, 13, 9, 2, 3, 14, 2, 7, 1, 5, 4, 7, 4, 4, 6, 0, 4, 15, 12, 0, 2, 12, 13, 11, 2, 2, 4, 8, 5, 9, 3, 1, 7, 13, 14, 0>>)))
    @@
    ((("(Some(\"6164e20ac3de15cbe6873d15338ae39392784d729dee7a4530ca5135588ce24e\"), 2)0af7ba66f9a27ed0e229221aada0cc88d5d6fd58f46f72eb626bd37b8e94efc87d3c95f98bd2b66af7c1d3a16cad13e01562539e02afc9695b86a5416092645f"
        :> <<3, 4, 5, 13, 9, 7, 15, 3, 8, 8, 1, 10, 8, 14, 0, 12, 5, 15, 12, 0, 0, 10, 14, 13, 2, 8, 2, 10, 5, 0, 8, 11, 3, 11, 11, 7, 4, 11, 8, 15, 6, 6, 9, 10, 5, 9, 3, 13, 6, 5, 12, 7, 15, 1, 5, 11, 2, 9, 14, 7, 6, 14, 4, 1>>)
    @@
    ("(Some(\"6164e20ac3de15cbe6873d15338ae39392784d729dee7a4530ca5135588ce24e\"), 2)0af7ba66f9a27ed0e229221aada0cc88d5d6fd58f46f72eb626bd37b8e94efc87d3c95f98bd2b66af7c1d3a16cad13e01562539e02afc9695b86a5416092645f0af7ba66f9a27ed0e229221aada0cc88d5d6fd58f46f72eb626bd37b8e94efc8"
        :> <<13, 0, 6, 10, 12, 13, 8, 3, 5, 5, 5, 12, 10, 5, 6, 5, 13, 14, 11, 13, 9, 14, 9, 3, 13, 15, 3, 13, 13, 5, 10, 9, 11, 15, 5, 13, 11, 5, 8, 2, 7, 13, 14, 5, 2, 15, 7, 2, 6, 10, 1, 14, 3, 5, 8, 4, 14, 3, 4, 5, 3, 3, 13, 1>>))
    @@
    (("(Some(\"6164e20ac3de15cbe6873d15338ae39392784d729dee7a4530ca5135588ce24e\"), 2)0af7ba66f9a27ed0e229221aada0cc88d5d6fd58f46f72eb626bd37b8e94efc87d3c95f98bd2b66af7c1d3a16cad13e01562539e02afc9695b86a5416092645f0f953d12a939fe4ef354fff77564841627136a6bf3667b256c4a5cb6768788da"
        :> <<11, 13, 2, 3, 1, 3, 4, 14, 1, 7, 12, 9, 15, 2, 3, 3, 12, 11, 9, 11, 8, 0, 8, 8, 9, 7, 10, 8, 0, 7, 3, 10, 15, 13, 5, 3, 0, 15, 2, 8, 7, 15, 10, 15, 14, 12, 1, 9, 9, 6, 9, 5, 4, 11, 4, 15, 7, 5, 12, 12, 0, 12, 3, 14>>)
    @@
    ("(Some(\"6164e20ac3de15cbe6873d15338ae39392784d729dee7a4530ca5135588ce24e\"), 2)0af7ba66f9a27ed0e229221aada0cc88d5d6fd58f46f72eb626bd37b8e94efc87d3c95f98bd2b66af7c1d3a16cad13e01562539e02afc9695b86a5416092645f140fc148a380d69b8753d296355d450a4c606dfa652482747ab694cd6ac23972"
        :> <<11, 14, 7, 1, 5, 2, 3, 13, 10, 8, 15, 11, 1, 10, 2, 10, 10, 8, 6, 7, 2, 15, 7, 13, 3, 3, 5, 1, 13, 3, 14, 10, 15, 8, 6, 6, 14, 5, 7, 13, 1, 10, 1, 7, 12, 5, 8, 10, 15, 6, 1, 4, 0, 10, 8, 5, 0, 3, 7, 15, 12, 12, 11, 11>>)))))))))
    @@
    (((((((("(Some(\"6164e20ac3de15cbe6873d15338ae39392784d729dee7a4530ca5135588ce24e\"), 2)0af7ba66f9a27ed0e229221aada0cc88d5d6fd58f46f72eb626bd37b8e94efc87d3c95f98bd2b66af7c1d3a16cad13e01562539e02afc9695b86a5416092645f7d3c95f98bd2b66af7c1d3a16cad13e01562539e02afc9695b86a5416092645f"
        :> <<7, 6, 2, 12, 6, 15, 6, 5, 4, 12, 5, 8, 11, 1, 5, 3, 7, 2, 3, 6, 0, 2, 8, 2, 8, 5, 4, 11, 14, 3, 11, 6, 13, 7, 1, 0, 13, 10, 1, 0, 2, 0, 0, 3, 8, 15, 1, 13, 2, 11, 8, 3, 12, 0, 2, 15, 1, 2, 4, 3, 15, 1, 13, 7>>)
    @@
    (("(Some(\"6164e20ac3de15cbe6873d15338ae39392784d729dee7a4530ca5135588ce24e\"), 2)0f953d12a939fe4ef354fff77564841627136a6bf3667b256c4a5cb6768788da"
        :> <<0, 10, 5, 3, 2, 3, 10, 4, 14, 9, 10, 13, 0, 2, 7, 10, 13, 8, 7, 13, 7, 2, 12, 12, 4, 11, 0, 10, 15, 5, 4, 1, 13, 0, 0, 7, 13, 9, 12, 6, 6, 2, 9, 2, 9, 11, 5, 2, 15, 8, 2, 5, 8, 3, 8, 15, 1, 13, 15, 11, 10, 3, 15, 9>>)
    @@
    ("(Some(\"6164e20ac3de15cbe6873d15338ae39392784d729dee7a4530ca5135588ce24e\"), 2)0f953d12a939fe4ef354fff77564841627136a6bf3667b256c4a5cb6768788da0af7ba66f9a27ed0e229221aada0cc88d5d6fd58f46f72eb626bd37b8e94efc8"
        :> <<2, 6, 5, 1, 12, 14, 15, 6, 3, 10, 0, 13, 9, 5, 7, 1, 1, 7, 1, 14, 12, 2, 12, 2, 7, 8, 6, 15, 6, 8, 3, 5, 7, 8, 10, 5, 15, 2, 4, 15, 3, 11, 6, 9, 3, 5, 7, 11, 13, 15, 8, 12, 7, 14, 13, 10, 6, 3, 12, 10, 11, 4, 11, 13>>)))
    @@
    (("(Some(\"6164e20ac3de15cbe6873d15338ae39392784d729dee7a4530ca5135588ce24e\"), 2)0f953d12a939fe4ef354fff77564841627136a6bf3667b256c4a5cb6768788da0af7ba66f9a27ed0e229221aada0cc88d5d6fd58f46f72eb626bd37b8e94efc80af7ba66f9a27ed0e229221aada0cc88d5d6fd58f46f72eb626bd37b8e94efc8"
        :> <<12, 2, 6, 1, 10, 14, 14, 12, 1, 11, 5, 6, 8, 0, 4, 4, 1, 13, 7, 12, 2, 11, 1, 13, 0, 1, 12, 11, 11, 0, 0, 9, 15, 3, 2, 1, 0, 5, 14, 14, 7, 8, 6, 10, 5, 3, 14, 3, 15, 14, 15, 6, 1, 1, 7, 7, 7, 2, 9, 15, 0, 9, 2, 2>>)
    @@
    (("(Some(\"6164e20ac3de15cbe6873d15338ae39392784d729dee7a4530ca5135588ce24e\"), 2)0f953d12a939fe4ef354fff77564841627136a6bf3667b256c4a5cb6768788da0af7ba66f9a27ed0e229221aada0cc88d5d6fd58f46f72eb626bd37b8e94efc80f953d12a939fe4ef354fff77564841627136a6bf3667b256c4a5cb6768788da"
        :> <<13, 14, 0, 2, 15, 2, 12, 7, 4, 12, 10, 6, 10, 13, 6, 8, 5, 8, 5, 0, 6, 2, 15, 5, 14, 13, 2, 7, 12, 3, 2, 0, 9, 5, 3, 3, 10, 5, 7, 1, 13, 13, 4, 13, 12, 14, 5, 15, 6, 14, 11, 2, 0, 10, 12, 7, 11, 15, 1, 6, 6, 2, 13, 15>>)
    @@
    ("(Some(\"6164e20ac3de15cbe6873d15338ae39392784d729dee7a4530ca5135588ce24e\"), 2)0f953d12a939fe4ef354fff77564841627136a6bf3667b256c4a5cb6768788da0af7ba66f9a27ed0e229221aada0cc88d5d6fd58f46f72eb626bd37b8e94efc8140fc148a380d69b8753d296355d450a4c606dfa652482747ab694cd6ac23972"
        :> <<7, 13, 1, 9, 15, 11, 2, 5, 3, 6, 5, 4, 13, 3, 0, 2, 8, 9, 14, 10, 3, 0, 9, 11, 6, 1, 7, 9, 9, 4, 2, 6, 10, 1, 9, 4, 15, 10, 7, 13, 11, 15, 2, 4, 9, 3, 3, 2, 9, 3, 8, 15, 0, 3, 7, 14, 0, 7, 13, 10, 11, 2, 2, 0>>))))
    @@
    ((("(Some(\"6164e20ac3de15cbe6873d15338ae39392784d729dee7a4530ca5135588ce24e\"), 2)0f953d12a939fe4ef354fff77564841627136a6bf3667b256c4a5cb6768788da0af7ba66f9a27ed0e229221aada0cc88d5d6fd58f46f72eb626bd37b8e94efc87d3c95f98bd2b66af7c1d3a16cad13e01562539e02afc9695b86a5416092645f"
        :> <<11, 1, 11, 7, 0, 12, 8, 9, 0, 11, 0, 15, 8, 14, 5, 15, 12, 12, 8, 1, 0, 13, 13, 3, 9, 6, 1, 12, 5, 1, 2, 4, 1, 12, 14, 1, 5, 0, 5, 2, 0, 14, 4, 4, 13, 8, 2, 13, 2, 7, 2, 2, 8, 11, 9, 7, 3, 0, 12, 10, 0, 15, 1, 11>>)
    @@
    (("(Some(\"6164e20ac3de15cbe6873d15338ae39392784d729dee7a4530ca5135588ce24e\"), 2)0f953d12a939fe4ef354fff77564841627136a6bf3667b256c4a5cb6768788da0f953d12a939fe4ef354fff77564841627136a6bf3667b256c4a5cb6768788da"
        :> <<0, 2, 4, 0, 5, 7, 5, 6, 10, 5, 6, 15, 15, 12, 14, 7, 8, 11, 4, 13, 7, 3, 6, 0, 3, 5, 5, 3, 3, 0, 4, 12, 8, 8, 13, 6, 6, 3, 1, 11, 13, 1, 2, 0, 11, 9, 5, 0, 15, 6, 12, 6, 13, 5, 7, 0, 13, 1, 14, 11, 2, 3, 10, 11>>)
    @@
    ("(Some(\"6164e20ac3de15cbe6873d15338ae39392784d729dee7a4530ca5135588ce24e\"), 2)0f953d12a939fe4ef354fff77564841627136a6bf3667b256c4a5cb6768788da0f953d12a939fe4ef354fff77564841627136a6bf3667b256c4a5cb6768788da0af7ba66f9a27ed0e229221aada0cc88d5d6fd58f46f72eb626bd37b8e94efc8"
        :> <<9, 14, 0, 3, 13, 14, 6, 2, 0, 11, 1, 5, 11, 15, 14, 12, 10, 2, 3, 5, 15, 10, 7, 10, 12, 3, 7, 15, 12, 13, 10, 9, 4, 0, 10, 10, 2, 2, 6, 10, 10, 2, 1, 10, 1, 8, 15, 8, 15, 9, 1, 7, 10, 2, 8, 8, 14, 5, 1, 8, 4, 4, 7, 8>>)))
    @@
    ((("(Some(\"6164e20ac3de15cbe6873d15338ae39392784d729dee7a4530ca5135588ce24e\"), 2)0f953d12a939fe4ef354fff77564841627136a6bf3667b256c4a5cb6768788da0f953d12a939fe4ef354fff77564841627136a6bf3667b256c4a5cb6768788da0f953d12a939fe4ef354fff77564841627136a6bf3667b256c4a5cb6768788da"
        :> <<12, 3, 2, 5, 8, 13, 11, 11, 10, 14, 2, 0, 11, 2, 12, 13, 2, 11, 14, 5, 15, 14, 7, 3, 12, 14, 1, 0, 4, 12, 1, 4, 11, 2, 13, 3, 13, 7, 3, 15, 9, 3, 12, 7, 8, 9, 1, 1, 10, 14, 14, 1, 9, 8, 15, 6, 15, 10, 5, 2, 1, 11, 1, 5>>)
    @@
    ("(Some(\"6164e20ac3de15cbe6873d15338ae39392784d729dee7a4530ca5135588ce24e\"), 2)0f953d12a939fe4ef354fff77564841627136a6bf3667b256c4a5cb6768788da0f953d12a939fe4ef354fff77564841627136a6bf3667b256c4a5cb6768788da140fc148a380d69b8753d296355d450a4c606dfa652482747ab694cd6ac23972"
        :> <<15, 14, 3, 15, 5, 4, 13, 2, 7, 12, 2, 9, 4, 3, 6, 15, 7, 10, 4, 6, 6, 2, 12, 14, 8, 1, 3, 13, 2, 7, 4, 1, 5, 15, 14, 0, 8, 4, 11, 5, 12, 13, 2, 2, 12, 8, 2, 13, 2, 1, 5, 14, 8, 6, 14, 11, 0, 4, 7, 0, 6, 6, 2, 8>>))
    @@
    (("(Some(\"6164e20ac3de15cbe6873d15338ae39392784d729dee7a4530ca5135588ce24e\"), 2)0f953d12a939fe4ef354fff77564841627136a6bf3667b256c4a5cb6768788da0f953d12a939fe4ef354fff77564841627136a6bf3667b256c4a5cb6768788da7d3c95f98bd2b66af7c1d3a16cad13e01562539e02afc9695b86a5416092645f"
        :> <<7, 4, 14, 3, 2, 9, 12, 11, 11, 14, 10, 11, 15, 13, 0, 6, 0, 7, 14, 5, 6, 9, 12, 9, 6, 2, 8, 0, 2, 14, 13, 3, 4, 8, 15, 5, 8, 11, 14, 0, 3, 4, 6, 13, 8, 7, 11, 6, 14, 8, 14, 8, 0, 1, 0, 2, 15, 4, 10, 1, 3, 10, 10, 4>>)
    @@
    ("(Some(\"6164e20ac3de15cbe6873d15338ae39392784d729dee7a4530ca5135588ce24e\"), 2)0f953d12a939fe4ef354fff77564841627136a6bf3667b256c4a5cb6768788da140fc148a380d69b8753d296355d450a4c606dfa652482747ab694cd6ac23972"
        :> <<5, 10, 4, 2, 10, 15, 12, 4, 7, 6, 15, 9, 4, 13, 13, 13, 0, 7, 8, 0, 10, 15, 2, 12, 7, 0, 0, 4, 8, 3, 2, 8, 9, 3, 9, 0, 13, 4, 1, 14, 1, 8, 0, 6, 14, 8, 12, 15, 6, 1, 10, 10, 7, 2, 14, 0, 2, 6, 14, 3, 15, 6, 6, 13>>)))))
    @@
    (((("(Some(\"6164e20ac3de15cbe6873d15338ae39392784d729dee7a4530ca5135588ce24e\"), 2)0f953d12a939fe4ef354fff77564841627136a6bf3667b256c4a5cb6768788da140fc148a380d69b8753d296355d450a4c606dfa652482747ab694cd6ac239720af7ba66f9a27ed0e229221aada0cc88d5d6fd58f46f72eb626bd37b8e94efc8"
        :> <<13, 6, 5, 15, 10, 6, 10, 14, 8, 1, 9, 7, 4, 13, 11, 5, 4, 7, 11, 9, 4, 2, 11, 6, 0, 0, 14, 8, 3, 4, 10, 13, 1, 1, 7, 14, 6, 0, 13, 12, 13, 5, 3, 3, 2, 12, 1, 0, 10, 7, 9, 7, 5, 5, 13, 13, 3, 1, 11, 7, 5, 11, 0, 13>>)
    @@
    (("(Some(\"6164e20ac3de15cbe6873d15338ae39392784d729dee7a4530ca5135588ce24e\"), 2)0f953d12a939fe4ef354fff77564841627136a6bf3667b256c4a5cb6768788da140fc148a380d69b8753d296355d450a4c606dfa652482747ab694cd6ac239720f953d12a939fe4ef354fff77564841627136a6bf3667b256c4a5cb6768788da"
        :> <<9, 8, 8, 0, 13, 5, 3, 8, 9, 11, 12, 0, 3, 12, 12, 4, 2, 12, 2, 7, 15, 4, 1, 5, 3, 0, 3, 3, 10, 15, 14, 13, 14, 1, 11, 8, 10, 6, 5, 1, 4, 2, 2, 11, 5, 13, 5, 12, 2, 11, 10, 15, 12, 14, 12, 4, 1, 12, 2, 0, 7, 2, 6, 13>>)
    @@
    ("(Some(\"6164e20ac3de15cbe6873d15338ae39392784d729dee7a4530ca5135588ce24e\"), 2)0f953d12a939fe4ef354fff77564841627136a6bf3667b256c4a5cb6768788da140fc148a380d69b8753d296355d450a4c606dfa652482747ab694cd6ac23972140fc148a380d69b8753d296355d450a4c606dfa652482747ab694cd6ac23972"
        :> <<0, 11, 13, 13, 10, 11, 2, 15, 15, 15, 10, 9, 5, 5, 0, 4, 4, 8, 7, 1, 0, 6, 5, 12, 4, 12, 13, 11, 13, 14, 4, 11, 13, 8, 8, 10, 8, 7, 15, 0, 7, 10, 3, 15, 13, 15, 1, 15, 1, 7, 9, 12, 0, 5, 10, 14, 9, 5, 6, 5, 2, 13, 6, 4>>)))
    @@
    (("(Some(\"6164e20ac3de15cbe6873d15338ae39392784d729dee7a4530ca5135588ce24e\"), 2)0f953d12a939fe4ef354fff77564841627136a6bf3667b256c4a5cb6768788da140fc148a380d69b8753d296355d450a4c606dfa652482747ab694cd6ac239727d3c95f98bd2b66af7c1d3a16cad13e01562539e02afc9695b86a5416092645f"
        :> <<14, 9, 6, 9, 10, 0, 7, 8, 5, 15, 7, 7, 7, 10, 4, 10, 7, 9, 12, 13, 4, 11, 7, 8, 11, 15, 11, 12, 10, 5, 2, 14, 5, 2, 1, 12, 4, 15, 2, 12, 13, 14, 12, 12, 2, 5, 6, 10, 3, 5, 4, 15, 6, 15, 15, 2, 13, 13, 12, 6, 11, 12, 11, 12>>)
    @@
    (("(Some(\"6164e20ac3de15cbe6873d15338ae39392784d729dee7a4530ca5135588ce24e\"), 2)0f953d12a939fe4ef354fff77564841627136a6bf3667b256c4a5cb6768788da7d3c95f98bd2b66af7c1d3a16cad13e01562539e02afc9695b86a5416092645f"
        :> <<14, 1, 11, 12, 10, 10, 10, 2, 12, 3, 10, 8, 8, 15, 3, 12, 8, 6, 15, 10, 13, 9, 8, 0, 14, 0, 10, 9, 11, 12, 3, 3, 15, 0, 5, 6, 6, 1, 5, 1, 6, 0, 12, 0, 13, 15, 8, 5, 14, 2, 13, 3, 0, 8, 2, 2, 14, 13, 12, 6, 4, 11, 3, 7>>)
    @@
    ("(Some(\"6164e20ac3de15cbe6873d15338ae39392784d729dee7a4530ca5135588ce24e\"), 2)0f953d12a939fe4ef354fff77564841627136a6bf3667b256c4a5cb6768788da7d3c95f98bd2b66af7c1d3a16cad13e01562539e02afc9695b86a5416092645f0af7ba66f9a27ed0e229221aada0cc88d5d6fd58f46f72eb626bd37b8e94efc8"
        :> <<15, 3, 13, 9, 3, 3, 10, 11, 8, 11, 13, 5, 8, 6, 4, 8, 8, 14, 13, 0, 8, 13, 14, 15, 5, 5, 8, 15, 13, 14, 4, 13, 7, 6, 14, 0, 5, 3, 14, 6, 0, 2, 10, 15, 2, 9, 11, 2, 11, 15, 2, 4, 15, 0, 12, 0, 8, 10, 0, 8, 8, 8, 14, 8>>))))
    @@
    ((("(Some(\"6164e20ac3de15cbe6873d15338ae39392784d729dee7a4530ca5135588ce24e\"), 2)0f953d12a939fe4ef354fff77564841627136a6bf3667b256c4a5cb6768788da7d3c95f98bd2b66af7c1d3a16cad13e01562539e02afc9695b86a5416092645f0f953d12a939fe4ef354fff77564841627136a6bf3667b256c4a5cb6768788da"
        :> <<12, 0, 3, 8, 12, 9, 8, 5, 14, 2, 11, 4, 1, 6, 7, 11, 8, 12, 6, 13, 8, 10, 6, 10, 2, 12, 1, 1, 7, 1, 5, 12, 12, 7, 6, 13, 14, 13, 4, 11, 15, 2, 11, 14, 9, 1, 4, 0, 7, 13, 6, 15, 15, 11, 10, 3, 6, 15, 6, 8, 6, 11, 5, 13>>)
    @@
    (("(Some(\"6164e20ac3de15cbe6873d15338ae39392784d729dee7a4530ca5135588ce24e\"), 2)0f953d12a939fe4ef354fff77564841627136a6bf3667b256c4a5cb6768788da7d3c95f98bd2b66af7c1d3a16cad13e01562539e02afc9695b86a5416092645f140fc148a380d69b8753d296355d450a4c606dfa652482747ab694cd6ac23972"
        :> <<15, 3, 7, 0, 5, 1, 5, 3, 5, 10, 6, 10, 4, 1, 6, 1, 0, 5, 15, 11, 3, 1, 7, 0, 8, 13, 5, 6, 10, 3, 7, 5, 14, 11, 12, 1, 4, 0, 6, 9, 15, 5, 1, 7, 2, 0, 15, 2, 1, 4, 2, 5, 3, 4, 11, 6, 8, 13, 14, 13, 10, 4, 1, 3>>)
    @@
    ("(Some(\"6164e20ac3de15cbe6873d15338ae39392784d729dee7a4530ca5135588ce24e\"), 2)0f953d12a939fe4ef354fff77564841627136a6bf3667b256c4a5cb6768788da7d3c95f98bd2b66af7c1d3a16cad13e01562539e02afc9695b86a5416092645f7d3c95f98bd2b66af7c1d3a16cad13e01562539e02afc9695b86a5416092645f"
        :> <<8, 3, 4, 7, 7, 9, 15, 7, 15, 1, 7, 0, 1, 10, 0, 2, 2, 11, 13, 10, 0, 6, 10, 8, 10, 1, 3, 12, 3, 3, 10, 13, 0, 15, 3, 6, 4, 3, 1, 13, 13, 7, 6, 5, 10, 10, 12, 9, 4, 9, 4, 2, 14, 7, 12, 7, 4, 1, 11, 6, 3, 5, 7, 0>>)))
    @@
    ((("(Some(\"6164e20ac3de15cbe6873d15338ae39392784d729dee7a4530ca5135588ce24e\"), 2)140fc148a380d69b8753d296355d450a4c606dfa652482747ab694cd6ac23972"
        :> <<11, 7, 2, 7, 3, 8, 7, 6, 11, 12, 4, 3, 2, 12, 2, 15, 7, 1, 8, 12, 2, 7, 11, 9, 9, 11, 9, 5, 14, 3, 8, 10, 9, 15, 3, 2, 2, 5, 14, 11, 15, 4, 6, 14, 15, 12, 2, 8, 3, 7, 10, 14, 3, 3, 14, 14, 14, 6, 4, 11, 12, 13, 15, 9>>)
    @@
    ("(Some(\"6164e20ac3de15cbe6873d15338ae39392784d729dee7a4530ca5135588ce24e\"), 2)140fc148a380d69b8753d296355d450a4c606dfa652482747ab694cd6ac239720af7ba66f9a27ed0e229221aada0cc88d5d6fd58f46f72eb626bd37b8e94efc8"
        :> <<4, 14, 2, 13, 7, 1, 9, 13, 4, 9, 10, 9, 4, 14, 11, 6, 2, 11, 4, 9, 12, 7, 10, 4, 10, 15, 2, 0, 12, 1, 12, 8, 11, 4, 0, 14, 14, 15, 2, 13, 8, 6, 3, 15, 4, 15, 0, 6, 4, 5, 11, 14, 1, 6, 9, 10, 14, 3, 2, 11, 14, 3, 5, 8>>))
    @@
    (("(Some(\"6164e20ac3de15cbe6873d15338ae39392784d729dee7a4530ca5135588ce24e\"), 2)140fc148a380d69b8753d296355d450a4c606dfa652482747ab694cd6ac239720af7ba66f9a27ed0e229221aada0cc88d5d6fd58f46f72eb626bd37b8e94efc80af7ba66f9a27ed0e229221aada0cc88d5d6fd58f46f72eb626bd37b8e94efc8"
        :> <<10, 6, 12, 1, 2, 0, 5, 13, 8, 7, 13, 10, 13, 11, 12, 0, 0, 6, 9, 15, 1, 1, 4, 14, 5, 5, 15, 4, 12, 7, 8, 10, 7, 14, 8, 2, 9, 4, 10, 1, 0, 7, 4, 2, 10, 6, 15, 1, 11, 12, 8, 15, 6, 3, 14, 11, 2, 1, 3, 0, 8, 0, 0, 2>>)
    @@
    ("(Some(\"6164e20ac3de15cbe6873d15338ae39392784d729dee7a4530ca5135588ce24e\"), 2)140fc148a380d69b8753d296355d450a4c606dfa652482747ab694cd6ac239720af7ba66f9a27ed0e229221aada0cc88d5d6fd58f46f72eb626bd37b8e94efc80f953d12a939fe4ef354fff77564841627136a6bf3667b256c4a5cb6768788da"
        :> <<2, 12, 5, 6, 6, 3, 6, 8, 5, 6, 14, 13, 13, 11, 6, 10, 8, 15, 15, 14, 10, 12, 0, 4, 0, 14, 5, 2, 1, 5, 14, 9, 0, 12, 5, 5, 8, 1, 2, 15, 12, 6, 12, 1, 3, 9, 2, 10, 4, 2, 9, 0, 15, 12, 7, 13, 1, 0, 11, 0, 1, 6, 2, 3>>))))))
    @@
    ((((("(Some(\"6164e20ac3de15cbe6873d15338ae39392784d729dee7a4530ca5135588ce24e\"), 2)140fc148a380d69b8753d296355d450a4c606dfa652482747ab694cd6ac239720af7ba66f9a27ed0e229221aada0cc88d5d6fd58f46f72eb626bd37b8e94efc8140fc148a380d69b8753d296355d450a4c606dfa652482747ab694cd6ac23972"
        :> <<4, 9, 4, 8, 13, 12, 15, 7, 10, 14, 3, 8, 14, 15, 6, 1, 1, 11, 8, 8, 4, 4, 13, 8, 4, 4, 8, 4, 13, 14, 2, 7, 14, 4, 0, 14, 12, 10, 4, 12, 10, 15, 6, 13, 14, 1, 14, 12, 7, 12, 6, 0, 15, 3, 1, 8, 8, 1, 8, 12, 7, 8, 3, 12>>)
    @@
    (("(Some(\"6164e20ac3de15cbe6873d15338ae39392784d729dee7a4530ca5135588ce24e\"), 2)140fc148a380d69b8753d296355d450a4c606dfa652482747ab694cd6ac239720af7ba66f9a27ed0e229221aada0cc88d5d6fd58f46f72eb626bd37b8e94efc87d3c95f98bd2b66af7c1d3a16cad13e01562539e02afc9695b86a5416092645f"
        :> <<2, 3, 2, 15, 0, 3, 11, 1, 5, 4, 2, 11, 14, 4, 10, 3, 11, 0, 13, 2, 0, 11, 6, 5, 9, 8, 14, 7, 6, 3, 5, 13, 13, 14, 9, 15, 12, 13, 10, 9, 2, 15, 10, 6, 3, 3, 0, 3, 1, 7, 7, 2, 6, 4, 15, 10, 2, 13, 2, 2, 11, 9, 5, 14>>)
    @@
    ("(Some(\"6164e20ac3de15cbe6873d15338ae39392784d729dee7a4530ca5135588ce24e\"), 2)140fc148a380d69b8753d296355d450a4c606dfa652482747ab694cd6ac239720f953d12a939fe4ef354fff77564841627136a6bf3667b256c4a5cb6768788da"
        :> <<13, 0, 15, 15, 8, 5, 6, 2, 8, 3, 14, 4, 14, 10, 6, 2, 12, 0, 11, 9, 9, 12, 4, 11, 8, 7, 4, 10, 8, 2, 6, 1, 13, 10, 14, 9, 3, 1, 10, 7, 14, 7, 6, 8, 6, 5, 0, 15, 3, 10, 1, 12, 15, 15, 13, 13, 2, 8, 13, 11, 5, 6, 11, 13>>)))
    @@
    (("(Some(\"6164e20ac3de15cbe6873d15338ae39392784d729dee7a4530ca5135588ce24e\"), 2)140fc148a380d69b8753d296355d450a4c606dfa652482747ab694cd6ac239720f953d12a939fe4ef354fff77564841627136a6bf3667b256c4a5cb6768788da0af7ba66f9a27ed0e229221aada0cc88d5d6fd58f46f72eb626bd37b8e94efc8"
        :> <<7, 15, 6, 14, 1, 4, 5, 4, 3, 11, 10, 14, 15, 12, 5, 13, 2, 5, 3, 15, 12, 8, 3, 5, 4, 5, 12, 2, 13, 10, 4, 14, 9, 11, 10, 3, 14, 5, 11, 11, 15, 0, 12, 9, 1, 7, 10, 14, 4, 3, 10, 10, 1, 5, 10, 15, 14, 9, 6, 14, 4, 15, 1, 5>>)
    @@
    (("(Some(\"6164e20ac3de15cbe6873d15338ae39392784d729dee7a4530ca5135588ce24e\"), 2)140fc148a380d69b8753d296355d450a4c606dfa652482747ab694cd6ac239720f953d12a939fe4ef354fff77564841627136a6bf3667b256c4a5cb6768788da0f953d12a939fe4ef354fff77564841627136a6bf3667b256c4a5cb6768788da"
        :> <<11, 6, 0, 1, 11, 6, 3, 12, 9, 15, 14, 13, 6, 7, 11, 11, 3, 15, 0, 4, 12, 10, 9, 0, 3, 9, 1, 14, 3, 1, 2, 10, 8, 13, 1, 8, 0, 5, 11, 10, 1, 6, 9, 14, 7, 2, 0, 5, 10, 5, 12, 13, 5, 3, 9, 11, 14, 11, 2, 0, 11, 10, 9, 14>>)
    @@
    ("(Some(\"6164e20ac3de15cbe6873d15338ae39392784d729dee7a4530ca5135588ce24e\"), 2)140fc148a380d69b8753d296355d450a4c606dfa652482747ab694cd6ac239720f953d12a939fe4ef354fff77564841627136a6bf3667b256c4a5cb6768788da140fc148a380d69b8753d296355d450a4c606dfa652482747ab694cd6ac23972"
        :> <<2, 7, 3, 8, 3, 7, 3, 0, 2, 8, 7, 11, 11, 15, 13, 0, 4, 9, 11, 11, 2, 3, 4, 14, 12, 7, 4, 10, 0, 9, 14, 14, 2, 12, 11, 11, 13, 6, 8, 14, 11, 15, 11, 2, 6, 1, 14, 3, 14, 14, 9, 10, 7, 1, 14, 8, 3, 5, 11, 6, 2, 1, 11, 1>>))))
    @@
    ((("(Some(\"6164e20ac3de15cbe6873d15338ae39392784d729dee7a4530ca5135588ce24e\"), 2)140fc148a380d69b8753d296355d450a4c606dfa652482747ab694cd6ac239720f953d12a939fe4ef354fff77564841627136a6bf3667b256c4a5cb6768788da7d3c95f98bd2b66af7c1d3a16cad13e01562539e02afc9695b86a5416092645f"
        :> <<15, 9, 7, 9, 15, 1, 10, 12, 9, 12, 15, 10, 14, 14, 2, 9, 0, 1, 7, 4, 5, 9, 2, 14, 10, 11, 11, 2, 13, 7, 9, 3, 15, 6, 1, 9, 8, 3, 0, 1, 3, 11, 15, 2, 15, 9, 0, 5, 8, 3, 13, 3, 3, 13, 13, 12, 4, 10, 0, 2, 10, 2, 3, 3>>)
    @@
    (("(Some(\"6164e20ac3de15cbe6873d15338ae39392784d729dee7a4530ca5135588ce24e\"), 2)140fc148a380d69b8753d296355d450a4c606dfa652482747ab694cd6ac23972140fc148a380d69b8753d296355d450a4c606dfa652482747ab694cd6ac23972"
        :> <<4, 10, 2, 4, 9, 0, 0, 10, 2, 0, 7, 13, 11, 15, 4, 14, 6, 6, 13, 11, 1, 10, 8, 7, 5, 14, 14, 15, 11, 3, 7, 2, 8, 10, 6, 2, 8, 0, 7, 1, 7, 15, 10, 11, 13, 14, 3, 11, 1, 5, 7, 4, 11, 0, 1, 14, 15, 10, 7, 3, 5, 9, 13, 3>>)
    @@
    ("(Some(\"6164e20ac3de15cbe6873d15338ae39392784d729dee7a4530ca5135588ce24e\"), 2)140fc148a380d69b8753d296355d450a4c606dfa652482747ab694cd6ac23972140fc148a380d69b8753d296355d450a4c606dfa652482747ab694cd6ac239720af7ba66f9a27ed0e229221aada0cc88d5d6fd58f46f72eb626bd37b8e94efc8"
        :> <<13, 12, 5, 12, 4, 14, 13, 8, 0, 10, 13, 10, 15, 10, 0, 5, 9, 2, 8, 2, 9, 7, 15, 10, 4, 3, 12, 10, 13, 15, 3, 6, 11, 5, 7, 13, 0, 13, 13, 12, 10, 7, 1, 1, 7, 13, 13, 14, 2, 13, 3, 12, 2, 12, 15, 6, 0, 0, 6, 2, 1, 6, 9, 8>>)))
    @@
    ((("(Some(\"6164e20ac3de15cbe6873d15338ae39392784d729dee7a4530ca5135588ce24e\"), 2)140fc148a380d69b8753d296355d450a4c606dfa652482747ab694cd6ac23972140fc148a380d69b8753d296355d450a4c606dfa652482747ab694cd6ac239720f953d12a939fe4ef354fff77564841627136a6bf3667b256c4a5cb6768788da"
        :> <<8, 15, 9, 12, 7, 2, 2, 15, 13, 8, 14, 10, 10, 5, 10, 6, 8, 12, 11, 8, 4, 11, 12, 1, 13, 14, 15, 1, 0, 11, 12, 12, 9, 1, 15, 13, 3, 5, 5, 12, 4, 3, 0, 1, 15, 2, 3, 3, 1, 4, 4, 10, 11, 6, 15, 12, 15, 2, 1, 6, 13, 6, 2, 8>>)
    @@
    ("(Some(\"6164e20ac3de15cbe6873d15338ae39392784d729dee7a4530ca5135588ce24e\"), 2)140fc148a380d69b8753d296355d450a4c606dfa652482747ab694cd6ac23972140fc148a380d69b8753d296355d450a4c606dfa652482747ab694cd6ac23972140fc148a380d69b8753d296355d450a4c606dfa652482747ab694cd6ac23972"
        :> <<4, 14, 5, 12, 4, 6, 8, 12, 4, 12, 0, 13, 10, 7, 9, 10, 2, 4, 12, 13, 1, 15, 3, 11, 8, 11, 14, 2, 4, 11, 7, 13, 2, 5, 9, 4, 15, 9, 15, 8, 13, 11, 10, 14, 4, 0, 10, 11, 6, 11, 2, 6, 11, 10, 4, 10, 4, 6, 6, 15, 12, 14, 1, 7>>))
    @@
    (("(Some(\"6164e20ac3de15cbe6873d15338ae39392784d729dee7a4530ca5135588ce24e\"), 2)140fc148a380d69b8753d296355d450a4c606dfa652482747ab694cd6ac23972140fc148a380d69b8753d296355d450a4c606dfa652482747ab694cd6ac239727d3c95f98bd2b66af7c1d3a16cad13e01562539e02afc9695b86a5416092645f"
        :> <<15, 7, 15, 5, 2, 13, 6, 0, 10, 8, 3, 1, 15, 9, 8, 9, 0, 8, 1, 6, 2, 8, 11, 4, 0, 4, 9, 3, 15, 6, 13, 9, 10, 5, 14, 13, 2, 4, 12, 3, 10, 6, 10, 14, 15, 12, 12, 10, 0, 6, 5, 8, 11, 0, 13, 3, 8, 0, 0, 5, 7, 5, 6, 1>>)
    @@
    ("(Some(\"6164e20ac3de15cbe6873d15338ae39392784d729dee7a4530ca5135588ce24e\"), 2)140fc148a380d69b8753d296355d450a4c606dfa652482747ab694cd6ac239727d3c95f98bd2b66af7c1d3a16cad13e01562539e02afc9695b86a5416092645f"
        :> <<14, 5, 13, 6, 0, 4, 3, 2, 2, 14, 1, 0, 8, 9, 8, 13, 14, 7, 0, 13, 6, 10, 8, 2, 7, 8, 10, 10, 2, 6, 12, 11, 6, 11, 6, 1, 11, 3, 5, 8, 15, 8, 13, 4, 1, 3, 9, 2, 13, 15, 14, 12, 7, 8, 0, 4, 15, 14, 8, 2, 0, 3, 13, 6>>)))))
    @@
    (((("(Some(\"6164e20ac3de15cbe6873d15338ae39392784d729dee7a4530ca5135588ce24e\"), 2)140fc148a380d69b8753d296355d450a4c606dfa652482747ab694cd6ac239727d3c95f98bd2b66af7c1d3a16cad13e01562539e02afc9695b86a5416092645f0af7ba66f9a27ed0e229221aada0cc88d5d6fd58f46f72eb626bd37b8e94efc8"
        :> <<11, 6, 7, 3, 13, 14, 1, 3, 15, 11, 11, 15, 4, 12, 1, 0, 6, 11, 1, 2, 7, 13, 13, 14, 15, 13, 2, 13, 14, 4, 4, 7, 0, 0, 3, 11, 4, 2, 14, 15, 2, 4, 2, 12, 6, 5, 6, 0, 6, 8, 6, 14, 0, 10, 10, 2, 8, 7, 6, 15, 4, 5, 4, 12>>)
    @@
    (("(Some(\"6164e20ac3de15cbe6873d15338ae39392784d729dee7a4530ca5135588ce24e\"), 2)140fc148a380d69b8753d296355d450a4c606dfa652482747ab694cd6ac239727d3c95f98bd2b66af7c1d3a16cad13e01562539e02afc9695b86a5416092645f0f953d12a939fe4ef354fff77564841627136a6bf3667b256c4a5cb6768788da"
        :> <<4, 7, 7, 10, 11, 2, 2, 15, 13, 8, 11, 3, 8, 13, 2, 13, 2, 3, 6, 11, 7, 3, 6, 12, 3, 11, 6, 11, 5, 9, 4, 11, 0, 0, 7, 2, 0, 1, 5, 9, 12, 0, 7, 11, 10, 7, 0, 7, 15, 1, 2, 7, 7, 1, 8, 0, 5, 7, 2, 8, 9, 6, 5, 1>>)
    @@
    ("(Some(\"6164e20ac3de15cbe6873d15338ae39392784d729dee7a4530ca5135588ce24e\"), 2)140fc148a380d69b8753d296355d450a4c606dfa652482747ab694cd6ac239727d3c95f98bd2b66af7c1d3a16cad13e01562539e02afc9695b86a5416092645f140fc148a380d69b8753d296355d450a4c606dfa652482747ab694cd6ac23972"
        :> <<4, 5, 0, 7, 9, 15, 1, 9, 15, 6, 2, 0, 13, 6, 11, 15, 1, 2, 2, 15, 8, 5, 12, 7, 11, 10, 8, 12, 5, 1, 0, 0, 9, 8, 9, 5, 3, 3, 4, 8, 3, 9, 11, 4, 2, 4, 11, 7, 0, 3, 14, 15, 3, 3, 8, 15, 4, 4, 1, 13, 4, 10, 0, 15>>)))
    @@
    (("(Some(\"6164e20ac3de15cbe6873d15338ae39392784d729dee7a4530ca5135588ce24e\"), 2)140fc148a380d69b8753d296355d450a4c606dfa652482747ab694cd6ac239727d3c95f98bd2b66af7c1d3a16cad13e01562539e02afc9695b86a5416092645f7d3c95f98bd2b66af7c1d3a16cad13e01562539e02afc9695b86a5416092645f"
        :> <<7, 5, 5, 10, 6, 12, 7, 14, 7, 3, 5, 3, 5, 8, 10, 10, 0, 11, 13, 12, 9, 8, 10, 14, 15, 5, 3, 14, 10, 8, 12, 14, 7, 10, 15, 5, 3, 3, 0, 3, 3, 7, 6, 8, 12, 8, 15, 5, 12, 8, 5, 5, 3, 3, 13, 9, 12, 4, 0, 13, 9, 0, 0, 8>>)
    @@
    (("(Some(\"6164e20ac3de15cbe6873d15338ae39392784d729dee7a4530ca5135588ce24e\"), 2)7d3c95f98bd2b66af7c1d3a16cad13e01562539e02afc9695b86a5416092645f"
        :> <<14, 13, 15, 5, 8, 5, 11, 11, 14, 11, 4, 14, 13, 11, 2, 3, 15, 4, 1, 9, 14, 5, 11, 2, 15, 1, 9, 5, 8, 12, 3, 9, 5, 4, 10, 6, 3, 0, 0, 6, 13, 5, 1, 8, 3, 15, 15, 7, 2, 11, 9, 15, 10, 15, 6, 2, 15, 11, 9, 9, 0, 0, 1, 0>>)
    @@
    ("(Some(\"6164e20ac3de15cbe6873d15338ae39392784d729dee7a4530ca5135588ce24e\"), 2)7d3c95f98bd2b66af7c1d3a16cad13e01562539e02afc9695b86a5416092645f0af7ba66f9a27ed0e229221aada0cc88d5d6fd58f46f72eb626bd37b8e94efc8"
        :> <<15, 3, 5, 3, 5, 11, 1, 3, 11, 6, 10, 7, 10, 8, 6, 3, 13, 3, 10, 5, 2, 12, 2, 5, 6, 6, 3, 11, 11, 0, 9, 1, 13, 2, 2, 14, 0, 2, 11, 8, 15, 15, 11, 4, 10, 14, 3, 8, 4, 9, 2, 9, 15, 12, 8, 0, 9, 5, 6, 15, 14, 11, 4, 2>>))))
    @@
    ((("(Some(\"6164e20ac3de15cbe6873d15338ae39392784d729dee7a4530ca5135588ce24e\"), 2)7d3c95f98bd2b66af7c1d3a16cad13e01562539e02afc9695b86a5416092645f0af7ba66f9a27ed0e229221aada0cc88d5d6fd58f46f72eb626bd37b8e94efc80af7ba66f9a27ed0e229221aada0cc88d5d6fd58f46f72eb626bd37b8e94efc8"
        :> <<5, 9, 14, 2, 6, 2, 0, 0, 11, 15, 8, 4, 10, 2, 7, 2, 9, 14, 14, 14, 1, 4, 7, 0, 10, 13, 11, 13, 2, 13, 7, 0, 6, 3, 3, 5, 6, 4, 14, 12, 10, 14, 13, 13, 10, 13, 7, 2, 14, 5, 13, 13, 9, 3, 8, 14, 1, 10, 11, 6, 9, 0, 13, 11>>)
    @@
    (("(Some(\"6164e20ac3de15cbe6873d15338ae39392784d729dee7a4530ca5135588ce24e\"), 2)7d3c95f98bd2b66af7c1d3a16cad13e01562539e02afc9695b86a5416092645f0af7ba66f9a27ed0e229221aada0cc88d5d6fd58f46f72eb626bd37b8e94efc80f953d12a939fe4ef354fff77564841627136a6bf3667b256c4a5cb6768788da"
        :> <<2, 13, 10, 10, 5, 15, 7, 15, 7, 3, 10, 7, 9, 4, 5, 3, 9, 7, 1, 14, 6, 2, 14, 6, 0, 6, 3, 0, 11, 12, 0, 5, 15, 12, 11, 10, 12, 2, 6, 9, 1, 7, 14, 10, 7, 10, 15, 12, 9, 4, 2, 5, 2, 13, 9, 10, 9, 14, 10, 11, 9, 1, 10, 6>>)
    @@
    ("(Some(\"6164e20ac3de15cbe6873d15338ae39392784d729dee7a4530ca5135588ce24e\"), 2)7d3c95f98bd2b66af7c1d3a16cad13e01562539e02afc9695b86a5416092645f0af7ba66f9a27ed0e229221aada0cc88d5d6fd58f46f72eb626bd37b8e94efc8140fc148a380d69b8753d296355d450a4c606dfa652482747ab694cd6ac23972"
        :> <<12, 1, 7, 14, 14, 14, 12, 6, 3, 14, 2, 13, 6, 4, 1, 14, 4, 9, 5, 15, 10, 7, 1, 3, 5, 14, 6, 4, 10, 10, 7, 3, 12, 13, 9, 8, 15, 7, 2, 15, 15, 6, 14, 3, 14, 5, 13, 5, 0, 11, 7, 4, 15, 7, 1, 5, 10, 3, 15, 12, 10, 3, 8, 10>>)))
    @@
    ((("(Some(\"6164e20ac3de15cbe6873d15338ae39392784d729dee7a4530ca5135588ce24e\"), 2)7d3c95f98bd2b66af7c1d3a16cad13e01562539e02afc9695b86a5416092645f0af7ba66f9a27ed0e229221aada0cc88d5d6fd58f46f72eb626bd37b8e94efc87d3c95f98bd2b66af7c1d3a16cad13e01562539e02afc9695b86a5416092645f"
        :> <<6, 9, 0, 4, 15, 12, 3, 1, 15, 5, 14, 9, 15, 1, 15, 9, 8, 5, 12, 4, 14, 14, 6, 7, 4, 3, 10, 9, 11, 12, 15, 4, 6, 2, 14, 11, 11, 3, 0, 14, 8, 7, 13, 5, 13, 2, 8, 13, 5, 0, 12, 12, 13, 1, 10, 12, 11, 12, 5, 13, 13, 0, 15, 10>>)
    @@
    ("(Some(\"6164e20ac3de15cbe6873d15338ae39392784d729dee7a4530ca5135588ce24e\"), 2)7d3c95f98bd2b66af7c1d3a16cad13e01562539e02afc9695b86a5416092645f0f953d12a939fe4ef354fff77564841627136a6bf3667b256c4a5cb6768788da"
        :> <<5, 15, 4, 8, 6, 10, 8, 7, 7, 2, 3, 10, 6, 12, 3, 12, 5, 1, 3, 8, 14, 8, 7, 0, 8, 2, 12, 7, 15, 9, 11, 3, 3, 6, 12, 4, 7, 6, 11, 14, 12, 3, 2, 10, 2, 9, 7, 10, 12, 5, 11, 14, 10, 0, 14, 9, 3, 8, 1, 12, 13, 6, 7, 6>>))
    @@
    (("(Some(\"6164e20ac3de15cbe6873d15338ae39392784d729dee7a4530ca5135588ce24e\"), 2)7d3c95f98bd2b66af7c1d3a16cad13e01562539e02afc9695b86a5416092645f0f953d12a939fe4ef354fff77564841627136a6bf3667b256c4a5cb6768788da0af7ba66f9a27ed0e229221aada0cc88d5d6fd58f46f72eb626bd37b8e94efc8"
        :> <<10, 6, 11, 8, 1, 7, 14, 12, 7, 5, 15, 8, 10, 7, 0, 15, 4, 5, 7, 7, 13, 0, 9, 14, 1, 3, 9, 0, 3, 15, 5, 2, 5, 9, 3, 4, 3, 13, 10, 3, 13, 5, 10, 5, 10, 6, 5, 6, 5, 9, 3, 5, 13, 12, 10, 15, 15, 13, 5, 3, 11, 2, 5, 9>>)
    @@
    ("(Some(\"6164e20ac3de15cbe6873d15338ae39392784d729dee7a4530ca5135588ce24e\"), 2)7d3c95f98bd2b66af7c1d3a16cad13e01562539e02afc9695b86a5416092645f0f953d12a939fe4ef354fff77564841627136a6bf3667b256c4a5cb6768788da0f953d12a939fe4ef354fff77564841627136a6bf3667b256c4a5cb6768788da"
        :> <<15, 4, 10, 5, 1, 2, 10, 12, 5, 1, 1, 10, 6, 15, 2, 13, 8, 11, 15, 5, 7, 3, 8, 8, 0, 0, 0, 4, 6, 3, 11, 13, 9, 5, 6, 14, 12, 4, 1, 5, 5, 4, 14, 15, 4, 13, 1, 5, 6, 11, 2, 2, 15, 4, 8, 15, 9, 8, 5, 14, 10, 11, 11, 9>>)))))))
    @@
    (((((("(Some(\"6164e20ac3de15cbe6873d15338ae39392784d729dee7a4530ca5135588ce24e\"), 2)7d3c95f98bd2b66af7c1d3a16cad13e01562539e02afc9695b86a5416092645f0f953d12a939fe4ef354fff77564841627136a6bf3667b256c4a5cb6768788da140fc148a380d69b8753d296355d450a4c606dfa652482747ab694cd6ac23972"
        :> <<5, 3, 2, 14, 10, 14, 10, 9, 1, 15, 8, 6, 0, 7, 7, 13, 3, 1, 2, 6, 7, 7, 5, 13, 5, 12, 10, 3, 11, 1, 9, 5, 7, 3, 0, 15, 0, 10, 3, 13, 8, 13, 15, 3, 14, 14, 15, 5, 1, 4, 7, 10, 8, 8, 9, 12, 0, 11, 7, 2, 5, 4, 4, 13>>)
    @@
    (("(Some(\"6164e20ac3de15cbe6873d15338ae39392784d729dee7a4530ca5135588ce24e\"), 2)7d3c95f98bd2b66af7c1d3a16cad13e01562539e02afc9695b86a5416092645f0f953d12a939fe4ef354fff77564841627136a6bf3667b256c4a5cb6768788da7d3c95f98bd2b66af7c1d3a16cad13e01562539e02afc9695b86a5416092645f"
        :> <<2, 5, 15, 9, 12, 1, 11, 3, 14, 4, 8, 10, 3, 13, 13, 5, 3, 13, 1, 9, 3, 2, 5, 1, 10, 11, 2, 9, 3, 1, 6, 0, 9, 1, 15, 10, 1, 14, 3, 6, 9, 4, 12, 7, 2, 6, 12, 10, 5, 7, 13, 1, 3, 10, 7, 2, 7, 11, 15, 14, 5, 13, 7, 2>>)
    @@
    ("(Some(\"6164e20ac3de15cbe6873d15338ae39392784d729dee7a4530ca5135588ce24e\"), 2)7d3c95f98bd2b66af7c1d3a16cad13e01562539e02afc9695b86a5416092645f140fc148a380d69b8753d296355d450a4c606dfa652482747ab694cd6ac23972"
        :> <<1, 11, 13, 11, 1, 14, 10, 11, 5, 14, 15, 9, 8, 2, 13, 5, 10, 5, 2, 1, 9, 9, 7, 4, 2, 15, 6, 0, 4, 3, 8, 2, 2, 6, 13, 14, 2, 5, 0, 3, 12, 0, 13, 15, 1, 6, 5, 10, 12, 11, 7, 9, 12, 4, 5, 9, 7, 8, 14, 0, 0, 14, 5, 13>>)))
    @@
    (("(Some(\"6164e20ac3de15cbe6873d15338ae39392784d729dee7a4530ca5135588ce24e\"), 2)7d3c95f98bd2b66af7c1d3a16cad13e01562539e02afc9695b86a5416092645f140fc148a380d69b8753d296355d450a4c606dfa652482747ab694cd6ac239720af7ba66f9a27ed0e229221aada0cc88d5d6fd58f46f72eb626bd37b8e94efc8"
        :> <<6, 15, 2, 4, 4, 6, 1, 14, 0, 0, 10, 13, 1, 14, 11, 1, 2, 14, 4, 13, 5, 14, 15, 9, 0, 0, 6, 9, 15, 3, 6, 3, 11, 13, 3, 14, 6, 15, 12, 8, 3, 13, 1, 4, 7, 11, 10, 4, 1, 15, 0, 9, 10, 13, 5, 11, 2, 13, 13, 0, 8, 4, 6, 4>>)
    @@
    (("(Some(\"6164e20ac3de15cbe6873d15338ae39392784d729dee7a4530ca5135588ce24e\"), 2)7d3c95f98bd2b66af7c1d3a16cad13e01562539e02afc9695b86a5416092645f140fc148a380d69b8753d296355d450a4c606dfa652482747ab694cd6ac239720f953d12a939fe4ef354fff77564841627136a6bf3667b256c4a5cb6768788da"
        :> <<10, 10, 0, 15, 0, 2, 7, 9, 3, 14, 3, 4, 0, 11, 11, 13, 10, 8, 7, 2, 15, 1, 11, 6, 3, 4, 4, 8, 2, 8, 12, 15, 8, 8, 5, 8, 7, 12, 9, 3, 6, 2, 1, 13, 6, 13, 4, 11, 3, 14, 3, 9, 2, 1, 6, 14, 15, 5, 1, 11, 10, 9, 1, 6>>)
    @@
    ("(Some(\"6164e20ac3de15cbe6873d15338ae39392784d729dee7a4530ca5135588ce24e\"), 2)7d3c95f98bd2b66af7c1d3a16cad13e01562539e02afc9695b86a5416092645f140fc148a380d69b8753d296355d450a4c606dfa652482747ab694cd6ac23972140fc148a380d69b8753d296355d450a4c606dfa652482747ab694cd6ac23972"
        :> <<8, 4, 2, 0, 6, 13, 12, 0, 11, 14, 9, 3, 8, 4, 5, 12, 0, 9, 13, 11, 14, 13, 11, 0, 3, 6, 7, 15, 2, 5, 11, 11, 8, 1, 6, 2, 0, 2, 7, 4, 12, 2, 13, 6, 3, 10, 7, 5, 15, 0, 13, 2, 15, 7, 10, 9, 11, 8, 0, 11, 12, 7, 14, 7>>))))
    @@
    ((("(Some(\"6164e20ac3de15cbe6873d15338ae39392784d729dee7a4530ca5135588ce24e\"), 2)7d3c95f98bd2b66af7c1d3a16cad13e01562539e02afc9695b86a5416092645f140fc148a380d69b8753d296355d450a4c606dfa652482747ab694cd6ac239727d3c95f98bd2b66af7c1d3a16cad13e01562539e02afc9695b86a5416092645f"
        :> <<9, 15, 13, 11, 15, 10, 7, 0, 3, 12, 1, 10, 10, 13, 2, 15, 11, 4, 8, 7, 2, 5, 13, 7, 12, 3, 3, 7, 3, 10, 8, 9, 13, 1, 15, 10, 3, 10, 14, 13, 13, 12, 6, 0, 11, 3, 15, 13, 0, 13, 2, 5, 11, 2, 0, 6, 6, 0, 5, 9, 4, 10, 13, 10>>)
    @@
    (("(Some(\"6164e20ac3de15cbe6873d15338ae39392784d729dee7a4530ca5135588ce24e\"), 2)7d3c95f98bd2b66af7c1d3a16cad13e01562539e02afc9695b86a5416092645f7d3c95f98bd2b66af7c1d3a16cad13e01562539e02afc9695b86a5416092645f"
        :> <<8, 4, 15, 1, 1, 0, 2, 5, 3, 5, 10, 3, 12, 11, 0, 10, 1, 3, 12, 12, 10, 5, 15, 12, 0, 6, 6, 4, 6, 5, 1, 7, 2, 13, 10, 8, 2, 3, 8, 6, 9, 4, 12, 3, 5, 13, 10, 8, 10, 13, 6, 0, 5, 9, 9, 1, 3, 11, 11, 4, 2, 9, 13, 12>>)
    @@
    ("(Some(\"6164e20ac3de15cbe6873d15338ae39392784d729dee7a4530ca5135588ce24e\"), 2)7d3c95f98bd2b66af7c1d3a16cad13e01562539e02afc9695b86a5416092645f7d3c95f98bd2b66af7c1d3a16cad13e01562539e02afc9695b86a5416092645f0af7ba66f9a27ed0e229221aada0cc88d5d6fd58f46f72eb626bd37b8e94efc8"
        :> <<11, 5, 12, 0, 6, 14, 4, 8, 0, 12, 12, 7, 10, 9, 8, 14, 0, 6, 3, 13, 7, 8, 13, 15, 6, 11, 9, 12, 2, 10, 3, 9, 3, 8, 1, 10, 11, 4, 15, 1, 5, 13, 15, 3, 7, 9, 5, 10, 14, 7, 15, 8, 4, 2, 3, 9, 9, 5, 4, 1, 1, 15, 0, 9>>)))
    @@
    ((("(Some(\"6164e20ac3de15cbe6873d15338ae39392784d729dee7a4530ca5135588ce24e\"), 2)7d3c95f98bd2b66af7c1d3a16cad13e01562539e02afc9695b86a5416092645f7d3c95f98bd2b66af7c1d3a16cad13e01562539e02afc9695b86a5416092645f0f953d12a939fe4ef354fff77564841627136a6bf3667b256c4a5cb6768788da"
        :> <<11, 8, 7, 3, 1, 9, 8, 12, 14, 2, 0, 0, 12, 10, 13, 9, 14, 7, 7, 6, 8, 13, 4, 12, 10, 12, 3, 0, 0, 15, 14, 11, 15, 6, 13, 14, 13, 1, 4, 12, 3, 13, 7, 1, 2, 1, 6, 7, 10, 1, 1, 13, 1, 0, 9, 0, 9, 9, 15, 11, 1, 1, 14, 12>>)
    @@
    ("(Some(\"6164e20ac3de15cbe6873d15338ae39392784d729dee7a4530ca5135588ce24e\"), 2)7d3c95f98bd2b66af7c1d3a16cad13e01562539e02afc9695b86a5416092645f7d3c95f98bd2b66af7c1d3a16cad13e01562539e02afc9695b86a5416092645f140fc148a380d69b8753d296355d450a4c606dfa652482747ab694cd6ac23972"
        :> <<15, 11, 5, 2, 4, 8, 8, 15, 6, 2, 12, 11, 1, 0, 7, 8, 7, 8, 8, 11, 12, 2, 3, 7, 2, 15, 6, 13, 4, 8, 3, 5, 2, 5, 4, 9, 14, 14, 3, 6, 5, 13, 11, 15, 5, 13, 14, 13, 7, 10, 10, 8, 9, 13, 8, 10, 9, 14, 6, 15, 11, 0, 12, 12>>))
    @@
    (("(Some(\"6164e20ac3de15cbe6873d15338ae39392784d729dee7a4530ca5135588ce24e\"), 2)7d3c95f98bd2b66af7c1d3a16cad13e01562539e02afc9695b86a5416092645f7d3c95f98bd2b66af7c1d3a16cad13e01562539e02afc9695b86a5416092645f7d3c95f98bd2b66af7c1d3a16cad13e01562539e02afc9695b86a5416092645f"
        :> <<10, 5, 15, 0, 13, 10, 15, 3, 10, 8, 13, 4, 10, 1, 6, 12, 12, 5, 15, 10, 13, 0, 15, 9, 11, 1, 13, 11, 0, 14, 5, 4, 8, 0, 5, 4, 11, 9, 1, 15, 14, 7, 6, 8, 12, 2, 4, 0, 2, 15, 11, 7, 9, 14, 5, 2, 10, 14, 8, 13, 12, 5, 9, 14>>)
    @@
    ("(Some(\"6164e20ac3de15cbe6873d15338ae39392784d729dee7a4530ca5135588ce24e\"), 3)"
        :> <<15, 11, 9, 15, 4, 2, 1, 10, 12, 0, 6, 2, 5, 5, 1, 1, 1, 11, 10, 12, 13, 9, 6, 3, 0, 0, 6, 2, 12, 9, 13, 5, 3, 4, 6, 2, 2, 1, 9, 12, 5, 13, 8, 4, 4, 4, 3, 12, 13, 13, 15, 5, 7, 6, 15, 7, 3, 1, 5, 9, 8, 13, 14, 13>>)))))
    @@
    (((("(Some(\"6164e20ac3de15cbe6873d15338ae39392784d729dee7a4530ca5135588ce24e\"), 3)0af7ba66f9a27ed0e229221aada0cc88d5d6fd58f46f72eb626bd37b8e94efc8"
        :> <<0, 11, 4, 14, 2, 5, 14, 3, 0, 5, 6, 12, 14, 6, 8, 2, 0, 3, 9, 7, 7, 7, 3, 0, 0, 14, 15, 7, 8, 13, 0, 12, 12, 9, 10, 13, 2, 7, 15, 3, 9, 0, 5, 9, 10, 15, 0, 13, 7, 5, 14, 11, 14, 11, 11, 2, 8, 6, 1, 7, 15, 2, 3, 15>>)
    @@
    (("(Some(\"6164e20ac3de15cbe6873d15338ae39392784d729dee7a4530ca5135588ce24e\"), 3)0af7ba66f9a27ed0e229221aada0cc88d5d6fd58f46f72eb626bd37b8e94efc80af7ba66f9a27ed0e229221aada0cc88d5d6fd58f46f72eb626bd37b8e94efc8"
        :> <<3, 13, 15, 4, 4, 0, 11, 1, 13, 5, 0, 13, 1, 10, 1, 13, 11, 10, 2, 2, 3, 14, 5, 5, 13, 10, 14, 12, 1, 13, 9, 12, 13, 6, 8, 2, 3, 1, 3, 11, 3, 10, 12, 14, 2, 4, 9, 11, 15, 0, 2, 7, 1, 7, 5, 6, 15, 2, 8, 4, 14, 10, 14, 11>>)
    @@
    ("(Some(\"6164e20ac3de15cbe6873d15338ae39392784d729dee7a4530ca5135588ce24e\"), 3)0af7ba66f9a27ed0e229221aada0cc88d5d6fd58f46f72eb626bd37b8e94efc80af7ba66f9a27ed0e229221aada0cc88d5d6fd58f46f72eb626bd37b8e94efc80af7ba66f9a27ed0e229221aada0cc88d5d6fd58f46f72eb626bd37b8e94efc8"
        :> <<2, 0, 0, 5, 6, 9, 13, 3, 15, 14, 1, 14, 3, 9, 6, 5, 4, 10, 1, 6, 12, 15, 7, 2, 6, 11, 15, 5, 9, 8, 5, 6, 9, 8, 1, 12, 7, 10, 4, 0, 5, 9, 10, 9, 12, 11, 3, 0, 3, 10, 11, 12, 6, 9, 15, 13, 1, 15, 14, 0, 7, 0, 5, 14>>)))
    @@
    (("(Some(\"6164e20ac3de15cbe6873d15338ae39392784d729dee7a4530ca5135588ce24e\"), 3)0af7ba66f9a27ed0e229221aada0cc88d5d6fd58f46f72eb626bd37b8e94efc80af7ba66f9a27ed0e229221aada0cc88d5d6fd58f46f72eb626bd37b8e94efc80f953d12a939fe4ef354fff77564841627136a6bf3667b256c4a5cb6768788da"
        :> <<9, 3, 10, 2, 15, 15, 14, 4, 8, 9, 9, 5, 1, 13, 15, 4, 7, 5, 15, 6, 9, 14, 5, 15, 5, 13, 1, 3, 9, 9, 13, 11, 3, 5, 6, 11, 8, 0, 4, 13, 8, 13, 9, 0, 14, 4, 13, 14, 5, 9, 14, 14, 5, 5, 8, 10, 1, 2, 9, 10, 7, 9, 9, 9>>)
    @@
    (("(Some(\"6164e20ac3de15cbe6873d15338ae39392784d729dee7a4530ca5135588ce24e\"), 3)0af7ba66f9a27ed0e229221aada0cc88d5d6fd58f46f72eb626bd37b8e94efc80af7ba66f9a27ed0e229221aada0cc88d5d6fd58f46f72eb626bd37b8e94efc8140fc148a380d69b8753d296355d450a4c606dfa652482747ab694cd6ac23972"
        :> <<13, 8, 10, 13, 4, 7, 8, 6, 7, 14, 8, 4, 11, 7, 7, 2, 6, 12, 10, 0, 6, 6, 15, 2, 3, 3, 12, 6, 1, 5, 5, 3, 6, 0, 4, 15, 2, 0, 7, 2, 7, 2, 12, 8, 3, 9, 3, 12, 12, 15, 2, 5, 0, 12, 2, 7, 11, 14, 10, 2, 10, 12, 7, 6>>)
    @@
    ("(Some(\"6164e20ac3de15cbe6873d15338ae39392784d729dee7a4530ca5135588ce24e\"), 3)0af7ba66f9a27ed0e229221aada0cc88d5d6fd58f46f72eb626bd37b8e94efc80af7ba66f9a27ed0e229221aada0cc88d5d6fd58f46f72eb626bd37b8e94efc87d3c95f98bd2b66af7c1d3a16cad13e01562539e02afc9695b86a5416092645f"
        :> <<5, 8, 11, 9, 7, 8, 1, 12, 12, 13, 10, 14, 0, 2, 7, 0, 6, 3, 4, 0, 9, 0, 9, 7, 7, 4, 15, 4, 11, 15, 11, 7, 0, 13, 10, 14, 4, 13, 0, 10, 13, 11, 6, 7, 1, 7, 7, 3, 7, 2, 12, 9, 14, 5, 5, 10, 13, 6, 1, 4, 10, 15, 15, 5>>))))
    @@
    ((("(Some(\"6164e20ac3de15cbe6873d15338ae39392784d729dee7a4530ca5135588ce24e\"), 3)0af7ba66f9a27ed0e229221aada0cc88d5d6fd58f46f72eb626bd37b8e94efc80f953d12a939fe4ef354fff77564841627136a6bf3667b256c4a5cb6768788da"
        :> <<15, 2, 1, 15, 9, 0, 8, 14, 8, 9, 2, 0, 3, 4, 13, 14, 10, 8, 11, 11, 9, 13, 15, 5, 5, 12, 14, 8, 15, 10, 8, 4, 2, 5, 8, 2, 8, 11, 7, 5, 4, 13, 12, 7, 12, 5, 14, 9, 2, 6, 9, 3, 10, 2, 1, 10, 9, 2, 9, 11, 10, 13, 13, 7>>)
    @@
    (("(Some(\"6164e20ac3de15cbe6873d15338ae39392784d729dee7a4530ca5135588ce24e\"), 3)0af7ba66f9a27ed0e229221aada0cc88d5d6fd58f46f72eb626bd37b8e94efc80f953d12a939fe4ef354fff77564841627136a6bf3667b256c4a5cb6768788da0af7ba66f9a27ed0e229221aada0cc88d5d6fd58f46f72eb626bd37b8e94efc8"
        :> <<9, 8, 14, 5, 1, 5, 13, 9, 8, 6, 9, 10, 15, 14, 10, 5, 0, 12, 10, 7, 15, 1, 5, 8, 8, 13, 15, 7, 7, 0, 6, 2, 4, 1, 5, 11, 11, 4, 7, 15, 2, 2, 0, 12, 13, 3, 1, 15, 12, 7, 15, 2, 12, 0, 15, 1, 7, 14, 14, 10, 9, 5, 13, 4>>)
    @@
    ("(Some(\"6164e20ac3de15cbe6873d15338ae39392784d729dee7a4530ca5135588ce24e\"), 3)0af7ba66f9a27ed0e229221aada0cc88d5d6fd58f46f72eb626bd37b8e94efc80f953d12a939fe4ef354fff77564841627136a6bf3667b256c4a5cb6768788da0f953d12a939fe4ef354fff77564841627136a6bf3667b256c4a5cb6768788da"
        :> <<13, 12, 7, 3, 9, 5, 7, 7, 0, 5, 8, 9, 6, 11, 4, 8, 2, 8, 1, 8, 8, 14, 3, 4, 11, 12, 12, 12, 12, 0, 10, 5, 12, 6, 1, 14, 14, 3, 6, 1, 6, 13, 9, 15, 12, 12, 14, 10, 7, 1, 11, 8, 13, 15, 14, 13, 10, 15, 14, 4, 1, 2, 9, 2>>)))
    @@
    ((("(Some(\"6164e20ac3de15cbe6873d15338ae39392784d729dee7a4530ca5135588ce24e\"), 3)0af7ba66f9a27ed0e229221aada0cc88d5d6fd58f46f72eb626bd37b8e94efc80f953d12a939fe4ef354fff77564841627136a6bf3667b256c4a5cb6768788da140fc148a380d69b8753d296355d450a4c606dfa652482747ab694cd6ac23972"
        :> <<13, 6, 4, 5, 0, 6, 6, 12, 15, 5, 13, 4, 10, 3, 7, 2, 15, 4, 0, 0, 12, 1, 1, 11, 15, 9, 8, 5, 1, 2, 2, 2, 5, 11, 2, 14, 4, 15, 8, 9, 12, 9, 14, 2, 5, 7, 4, 6, 1, 10, 0, 2, 4, 6, 1, 2, 15, 4, 14, 4, 4, 3, 3, 3>>)
    @@
    ("(Some(\"6164e20ac3de15cbe6873d15338ae39392784d729dee7a4530ca5135588ce24e\"), 3)0af7ba66f9a27ed0e229221aada0cc88d5d6fd58f46f72eb626bd37b8e94efc80f953d12a939fe4ef354fff77564841627136a6bf3667b256c4a5cb6768788da7d3c95f98bd2b66af7c1d3a16cad13e01562539e02afc9695b86a5416092645f"
        :> <<13, 1, 14, 7, 7, 8, 14, 6, 11, 12, 1, 11, 10, 7, 11, 7, 9, 8, 3, 4, 11, 5, 1, 14, 2, 12, 7, 14, 9, 0, 12, 5, 14, 9, 7, 4, 6, 8, 11, 13, 0, 14, 3, 10, 6, 0, 14, 8, 11, 4, 10, 6, 9, 4, 15, 12, 13, 7, 0, 3, 7, 12, 13, 11>>))
    @@
    (("(Some(\"6164e20ac3de15cbe6873d15338ae39392784d729dee7a4530ca5135588ce24e\"), 3)0af7ba66f9a27ed0e229221aada0cc88d5d6fd58f46f72eb626bd37b8e94efc8140fc148a380d69b8753d296355d450a4c606dfa652482747ab694cd6ac23972"
        :> <<4, 13, 11, 13, 9, 6, 11, 12, 10, 13, 7, 2, 15, 3, 6, 5, 6, 6, 4, 0, 5, 5, 0, 0, 10, 0, 4, 3, 15, 12, 10, 11, 6, 4, 4, 15, 2, 14, 5, 14, 11, 3, 4, 14, 9, 14, 10, 3, 6, 3, 15, 3, 14, 12, 2, 10, 8, 10, 8, 3, 0, 8, 5, 4>>)
    @@
    ("(Some(\"6164e20ac3de15cbe6873d15338ae39392784d729dee7a4530ca5135588ce24e\"), 3)0af7ba66f9a27ed0e229221aada0cc88d5d6fd58f46f72eb626bd37b8e94efc8140fc148a380d69b8753d296355d450a4c606dfa652482747ab694cd6ac239720af7ba66f9a27ed0e229221aada0cc88d5d6fd58f46f72eb626bd37b8e94efc8"
        :> <<14, 10, 10, 7, 5, 8, 6, 10, 11, 10, 2, 15, 9, 1, 8, 5, 5, 9, 1, 11, 9, 6, 4, 6, 13, 12, 10, 2, 14, 5, 14, 2, 11, 15, 8, 2, 6, 3, 6, 0, 10, 15, 11, 1, 12, 14, 13, 13, 12, 14, 1, 13, 11, 4, 14, 12, 1, 8, 13, 14, 4, 1, 7, 12>>))))))
    @@
    ((((("(Some(\"6164e20ac3de15cbe6873d15338ae39392784d729dee7a4530ca5135588ce24e\"), 3)0af7ba66f9a27ed0e229221aada0cc88d5d6fd58f46f72eb626bd37b8e94efc8140fc148a380d69b8753d296355d450a4c606dfa652482747ab694cd6ac239720f953d12a939fe4ef354fff77564841627136a6bf3667b256c4a5cb6768788da"
        :> <<3, 8, 2, 12, 7, 14, 14, 9, 12, 5, 10, 1, 8, 15, 3, 11, 7, 9, 14, 13, 11, 12, 9, 0, 9, 0, 2, 0, 0, 11, 6, 14, 14, 3, 2, 3, 6, 2, 1, 0, 7, 12, 1, 3, 5, 13, 8, 14, 15, 1, 8, 13, 11, 8, 10, 13, 5, 8, 11, 12, 3, 13, 1, 2>>)
    @@
    (("(Some(\"6164e20ac3de15cbe6873d15338ae39392784d729dee7a4530ca5135588ce24e\"), 3)0af7ba66f9a27ed0e229221aada0cc88d5d6fd58f46f72eb626bd37b8e94efc8140fc148a380d69b8753d296355d450a4c606dfa652482747ab694cd6ac23972140fc148a380d69b8753d296355d450a4c606dfa652482747ab694cd6ac23972"
        :> <<12, 1, 2, 7, 10, 13, 4, 0, 15, 1, 3, 4, 15, 13, 6, 2, 5, 12, 9, 14, 10, 9, 9, 14, 6, 5, 5, 1, 4, 13, 7, 8, 12, 6, 0, 8, 8, 10, 6, 1, 9, 12, 13, 2, 14, 4, 0, 8, 6, 3, 5, 12, 4, 3, 12, 10, 8, 13, 1, 11, 4, 1, 9, 14>>)
    @@
    ("(Some(\"6164e20ac3de15cbe6873d15338ae39392784d729dee7a4530ca5135588ce24e\"), 3)0af7ba66f9a27ed0e229221aada0cc88d5d6fd58f46f72eb626bd37b8e94efc8140fc148a380d69b8753d296355d450a4c606dfa652482747ab694cd6ac239727d3c95f98bd2b66af7c1d3a16cad13e01562539e02afc9695b86a5416092645f"
        :> <<9, 5, 8, 1, 1, 6, 1, 9, 1, 1, 14, 14, 9, 3, 1, 2, 8, 15, 11, 6, 12, 5, 5, 1, 0, 4, 3, 9, 3, 1, 9, 0, 7, 8, 4, 10, 12, 6, 1, 1, 14, 10, 4, 7, 5, 11, 3, 10, 5, 6, 5, 0, 5, 14, 11, 5, 2, 1, 7, 1, 14, 14, 13, 12>>)))
    @@
    (("(Some(\"6164e20ac3de15cbe6873d15338ae39392784d729dee7a4530ca5135588ce24e\"), 3)0af7ba66f9a27ed0e229221aada0cc88d5d6fd58f46f72eb626bd37b8e94efc87d3c95f98bd2b66af7c1d3a16cad13e01562539e02afc9695b86a5416092645f"
        :> <<4, 7, 13, 3, 4, 5, 3, 11, 1, 12, 10, 14, 9, 9, 12, 11, 7, 5, 9, 14, 10, 13, 8, 9, 14, 12, 8, 6, 8, 12, 15, 7, 13, 8, 11, 5, 6, 13, 8, 2, 10, 10, 13, 0, 9, 6, 11, 9, 10, 10, 2, 5, 14, 13, 10, 10, 15, 4, 5, 2, 0, 11, 12, 14>>)
    @@
    (("(Some(\"6164e20ac3de15cbe6873d15338ae39392784d729dee7a4530ca5135588ce24e\"), 3)0af7ba66f9a27ed0e229221aada0cc88d5d6fd58f46f72eb626bd37b8e94efc87d3c95f98bd2b66af7c1d3a16cad13e01562539e02afc9695b86a5416092645f0af7ba66f9a27ed0e229221aada0cc88d5d6fd58f46f72eb626bd37b8e94efc8"
        :> <<3, 13, 5, 10, 10, 3, 9, 15, 6, 5, 12, 14, 5, 5, 3, 10, 3, 8, 7, 4, 2, 8, 14, 9, 1, 4, 14, 12, 2, 14, 11, 11, 1, 0, 13, 5, 1, 14, 5, 8, 10, 11, 7, 11, 9, 5, 3, 1, 6, 5, 12, 1, 12, 14, 1, 14, 13, 0, 7, 2, 7, 3, 0, 11>>)
    @@
    ("(Some(\"6164e20ac3de15cbe6873d15338ae39392784d729dee7a4530ca5135588ce24e\"), 3)0af7ba66f9a27ed0e229221aada0cc88d5d6fd58f46f72eb626bd37b8e94efc87d3c95f98bd2b66af7c1d3a16cad13e01562539e02afc9695b86a5416092645f0f953d12a939fe4ef354fff77564841627136a6bf3667b256c4a5cb6768788da"
        :> <<3, 5, 3, 11, 10, 11, 9, 6, 9, 1, 5, 3, 6, 2, 7, 3, 14, 3, 7, 11, 13, 14, 1, 1, 5, 15, 12, 11, 10, 12, 13, 12, 7, 15, 10, 6, 3, 4, 10, 14, 9, 13, 11, 5, 7, 10, 8, 9, 4, 5, 5, 5, 3, 13, 7, 10, 11, 11, 12, 15, 8, 13, 9, 12>>))))
    @@
    ((("(Some(\"6164e20ac3de15cbe6873d15338ae39392784d729dee7a4530ca5135588ce24e\"), 3)0af7ba66f9a27ed0e229221aada0cc88d5d6fd58f46f72eb626bd37b8e94efc87d3c95f98bd2b66af7c1d3a16cad13e01562539e02afc9695b86a5416092645f140fc148a380d69b8753d296355d450a4c606dfa652482747ab694cd6ac23972"
        :> <<3, 11, 0, 4, 15, 11, 3, 9, 15, 2, 15, 6, 0, 15, 9, 1, 7, 11, 4, 8, 15, 2, 10, 3, 3, 0, 6, 14, 1, 1, 10, 1, 0, 14, 6, 12, 7, 13, 4, 4, 15, 6, 14, 15, 7, 12, 9, 7, 11, 2, 12, 12, 13, 2, 1, 4, 3, 12, 3, 0, 12, 2, 5, 5>>)
    @@
    (("(Some(\"6164e20ac3de15cbe6873d15338ae39392784d729dee7a4530ca5135588ce24e\"), 3)0af7ba66f9a27ed0e229221aada0cc88d5d6fd58f46f72eb626bd37b8e94efc87d3c95f98bd2b66af7c1d3a16cad13e01562539e02afc9695b86a5416092645f7d3c95f98bd2b66af7c1d3a16cad13e01562539e02afc9695b86a5416092645f"
        :> <<5, 10, 1, 15, 15, 6, 10, 12, 12, 2, 5, 8, 2, 6, 4, 7, 12, 6, 13, 15, 5, 14, 5, 10, 14, 6, 9, 3, 5, 1, 11, 11, 14, 5, 15, 11, 5, 15, 13, 5, 8, 10, 8, 1, 14, 9, 12, 4, 15, 11, 15, 14, 7, 14, 3, 4, 14, 2, 7, 5, 10, 7, 7, 1>>)
    @@
    ("(Some(\"6164e20ac3de15cbe6873d15338ae39392784d729dee7a4530ca5135588ce24e\"), 3)0f953d12a939fe4ef354fff77564841627136a6bf3667b256c4a5cb6768788da"
        :> <<8, 2, 1, 14, 9, 13, 0, 7, 0, 3, 12, 6, 13, 9, 9, 12, 9, 10, 11, 3, 1, 6, 0, 7, 10, 11, 12, 2, 1, 11, 2, 4, 14, 15, 10, 3, 2, 14, 1, 3, 11, 8, 9, 12, 9, 6, 7, 2, 11, 0, 4, 0, 1, 4, 14, 4, 10, 12, 9, 5, 6, 7, 3, 13>>)))
    @@
    ((("(Some(\"6164e20ac3de15cbe6873d15338ae39392784d729dee7a4530ca5135588ce24e\"), 3)0f953d12a939fe4ef354fff77564841627136a6bf3667b256c4a5cb6768788da0af7ba66f9a27ed0e229221aada0cc88d5d6fd58f46f72eb626bd37b8e94efc8"
        :> <<1, 2, 15, 13, 2, 10, 0, 7, 8, 5, 12, 4, 4, 5, 0, 1, 5, 13, 8, 9, 0, 7, 9, 8, 2, 12, 8, 4, 8, 4, 8, 1, 1, 7, 15, 7, 9, 14, 7, 8, 5, 8, 6, 13, 15, 14, 8, 14, 6, 9, 6, 6, 3, 4, 12, 1, 14, 7, 12, 10, 13, 6, 11, 1>>)
    @@
    ("(Some(\"6164e20ac3de15cbe6873d15338ae39392784d729dee7a4530ca5135588ce24e\"), 3)0f953d12a939fe4ef354fff77564841627136a6bf3667b256c4a5cb6768788da0af7ba66f9a27ed0e229221aada0cc88d5d6fd58f46f72eb626bd37b8e94efc80af7ba66f9a27ed0e229221aada0cc88d5d6fd58f46f72eb626bd37b8e94efc8"
        :> <<9, 10, 14, 6, 8, 8, 13, 15, 13, 14, 8, 15, 7, 2, 15, 4, 2, 7, 9, 1, 11, 11, 15, 12, 3, 9, 11, 7, 0, 13, 15, 4, 14, 0, 13, 8, 10, 2, 15, 5, 7, 1, 4, 14, 6, 6, 11, 6, 1, 10, 8, 0, 11, 6, 12, 3, 4, 4, 1, 0, 10, 12, 6, 13>>))
    @@
    (("(Some(\"6164e20ac3de15cbe6873d15338ae39392784d729dee7a4530ca5135588ce24e\"), 3)0f953d12a939fe4ef354fff77564841627136a6bf3667b256c4a5cb6768788da0af7ba66f9a27ed0e229221aada0cc88d5d6fd58f46f72eb626bd37b8e94efc80f953d12a939fe4ef354fff77564841627136a6bf3667b256c4a5cb6768788da"
        :> <<9, 1, 11, 14, 4, 5, 4, 3, 5, 4, 12, 9, 11, 8, 0, 13, 3, 14, 0, 10, 5, 5, 7, 5, 5, 3, 11, 3, 5, 15, 15, 3, 5, 15, 2, 2, 4, 5, 0, 1, 7, 12, 0, 5, 2, 12, 1, 5, 6, 6, 14, 6, 11, 8, 4, 13, 12, 7, 13, 7, 5, 10, 5, 3>>)
    @@
    ("(Some(\"6164e20ac3de15cbe6873d15338ae39392784d729dee7a4530ca5135588ce24e\"), 3)0f953d12a939fe4ef354fff77564841627136a6bf3667b256c4a5cb6768788da0af7ba66f9a27ed0e229221aada0cc88d5d6fd58f46f72eb626bd37b8e94efc8140fc148a380d69b8753d296355d450a4c606dfa652482747ab694cd6ac23972"
        :> <<8, 8, 10, 8, 9, 13, 12, 12, 8, 5, 10, 10, 7, 8, 13, 11, 13, 0, 3, 10, 0, 12, 1, 13, 11, 5, 15, 1, 6, 12, 8, 0, 3, 13, 9, 11, 13, 0, 4, 6, 10, 14, 2, 10, 6, 15, 15, 7, 4, 1, 0, 12, 10, 10, 10, 11, 15, 12, 7, 15, 7, 13, 15, 14>>)))))
    @@
    (((("(Some(\"6164e20ac3de15cbe6873d15338ae39392784d729dee7a4530ca5135588ce24e\"), 3)0f953d12a939fe4ef354fff77564841627136a6bf3667b256c4a5cb6768788da0af7ba66f9a27ed0e229221aada0cc88d5d6fd58f46f72eb626bd37b8e94efc87d3c95f98bd2b66af7c1d3a16cad13e01562539e02afc9695b86a5416092645f"
        :> <<15, 6, 3, 10, 1, 0, 4, 4, 3, 7, 2, 3, 0, 0, 0, 0, 0, 1, 4, 5, 10, 4, 5, 10, 13, 3, 11, 5, 1, 12, 0, 3, 0, 13, 8, 13, 14, 10, 1, 5, 3, 14, 14, 2, 6, 14, 8, 1, 15, 3, 11, 13, 12, 6, 5, 9, 15, 6, 14, 15, 9, 14, 15, 5>>)
    @@
    (("(Some(\"6164e20ac3de15cbe6873d15338ae39392784d729dee7a4530ca5135588ce24e\"), 3)0f953d12a939fe4ef354fff77564841627136a6bf3667b256c4a5cb6768788da0f953d12a939fe4ef354fff77564841627136a6bf3667b256c4a5cb6768788da"
        :> <<4, 5, 11, 2, 0, 12, 2, 6, 6, 9, 14, 15, 13, 1, 7, 14, 10, 15, 4, 12, 14, 4, 10, 15, 4, 2, 13, 3, 8, 1, 14, 8, 3, 14, 9, 1, 1, 2, 10, 11, 14, 10, 1, 8, 0, 7, 12, 15, 11, 9, 11, 9, 7, 6, 5, 9, 7, 13, 5, 3, 1, 5, 12, 15>>)
    @@
    ("(Some(\"6164e20ac3de15cbe6873d15338ae39392784d729dee7a4530ca5135588ce24e\"), 3)0f953d12a939fe4ef354fff77564841627136a6bf3667b256c4a5cb6768788da0f953d12a939fe4ef354fff77564841627136a6bf3667b256c4a5cb6768788da0af7ba66f9a27ed0e229221aada0cc88d5d6fd58f46f72eb626bd37b8e94efc8"
        :> <<4, 10, 2, 15, 12, 14, 2, 10, 0, 12, 9, 12, 12, 11, 3, 10, 15, 13, 11, 1, 8, 4, 11, 2, 6, 11, 7, 15, 15, 6, 7, 7, 3, 10, 9, 8, 10, 4, 5, 4, 15, 5, 0, 5, 11, 10, 9, 2, 7, 8, 14, 13, 3, 1, 10, 1, 9, 3, 6, 15, 11, 13, 2, 12>>)))
    @@
    ((("(Some(\"6164e20ac3de15cbe6873d15338ae39392784d729dee7a4530ca5135588ce24e\"), 3)0f953d12a939fe4ef354fff77564841627136a6bf3667b256c4a5cb6768788da0f953d12a939fe4ef354fff77564841627136a6bf3667b256c4a5cb6768788da0f953d12a939fe4ef354fff77564841627136a6bf3667b256c4a5cb6768788da"
        :> <<10, 2, 3, 10, 2, 5, 9, 15, 6, 2, 8, 11, 4, 12, 13, 11, 3, 9, 6, 10, 15, 10, 9, 14, 7, 11, 13, 8, 8, 11, 7, 11, 2, 3, 10, 5, 1, 2, 10, 5, 11, 1, 8, 15, 11, 2, 12, 2, 10, 9, 12, 9, 13, 12, 4, 13, 4, 15, 14, 3, 10, 11, 2, 13>>)
    @@
    ("(Some(\"6164e20ac3de15cbe6873d15338ae39392784d729dee7a4530ca5135588ce24e\"), 3)0f953d12a939fe4ef354fff77564841627136a6bf3667b256c4a5cb6768788da0f953d12a939fe4ef354fff77564841627136a6bf3667b256c4a5cb6768788da140fc148a380d69b8753d296355d450a4c606dfa652482747ab694cd6ac23972"
        :> <<6, 0, 2, 3, 11, 10, 5, 0, 13, 13, 6, 7, 11, 12, 0, 5, 12, 11, 5, 15, 10, 6, 2, 15, 15, 14, 9, 6, 2, 1, 7, 9, 12, 6, 4, 1, 9, 15, 11, 6, 1, 6, 7, 14, 2, 10, 10, 13, 13, 2, 12, 1, 0, 5, 7, 6, 7, 2, 6, 1, 9, 10, 9, 15>>))
    @@
    (("(Some(\"6164e20ac3de15cbe6873d15338ae39392784d729dee7a4530ca5135588ce24e\"), 3)0f953d12a939fe4ef354fff77564841627136a6bf3667b256c4a5cb6768788da0f953d12a939fe4ef354fff77564841627136a6bf3667b256c4a5cb6768788da7d3c95f98bd2b66af7c1d3a16cad13e01562539e02afc9695b86a5416092645f"
        :> <<13, 6, 4, 1, 4, 6, 1, 1, 12, 15, 10, 11, 15, 1, 4, 12, 1, 12, 7, 6, 9, 8, 7, 1, 14, 12, 11, 5, 8, 1, 13, 12, 14, 10, 5, 15, 11, 6, 11, 5, 14, 3, 11, 14, 10, 5, 14, 2, 10, 8, 5, 2, 13, 0, 2, 11, 7, 10, 15, 3, 4, 10, 6, 12>>)
    @@
    ("(Some(\"6164e20ac3de15cbe6873d15338ae39392784d729dee7a4530ca5135588ce24e\"), 3)0f953d12a939fe4ef354fff77564841627136a6bf3667b256c4a5cb6768788da140fc148a380d69b8753d296355d450a4c606dfa652482747ab694cd6ac23972"
        :> <<15, 7, 1, 13, 1, 4, 10, 7, 5, 3, 13, 12, 12, 11, 5, 2, 0, 2, 11, 7, 12, 9, 0, 3, 9, 11, 2, 5, 4, 9, 15, 2, 7, 14, 7, 14, 6, 10, 9, 5, 1, 1, 1, 12, 13, 7, 1, 14, 14, 4, 10, 5, 1, 3, 13, 5, 15, 9, 11, 5, 14, 12, 1, 12>>))))
    @@
    ((("(Some(\"6164e20ac3de15cbe6873d15338ae39392784d729dee7a4530ca5135588ce24e\"), 3)0f953d12a939fe4ef354fff77564841627136a6bf3667b256c4a5cb6768788da140fc148a380d69b8753d296355d450a4c606dfa652482747ab694cd6ac239720af7ba66f9a27ed0e229221aada0cc88d5d6fd58f46f72eb626bd37b8e94efc8"
        :> <<4, 10, 9, 7, 1, 11, 3, 7, 12, 11, 1, 14, 13, 10, 2, 14, 11, 9, 15, 5, 10, 4, 12, 9, 5, 12, 15, 10, 2, 12, 7, 2, 15, 3, 3, 7, 3, 13, 0, 12, 9, 11, 13, 7, 7, 10, 7, 11, 9, 7, 8, 9, 13, 7, 14, 9, 5, 2, 4, 4, 9, 11, 12, 15>>)
    @@
    (("(Some(\"6164e20ac3de15cbe6873d15338ae39392784d729dee7a4530ca5135588ce24e\"), 3)0f953d12a939fe4ef354fff77564841627136a6bf3667b256c4a5cb6768788da140fc148a380d69b8753d296355d450a4c606dfa652482747ab694cd6ac239720f953d12a939fe4ef354fff77564841627136a6bf3667b256c4a5cb6768788da"
        :> <<10, 5, 12, 4, 0, 14, 1, 13, 1, 7, 1, 5, 2, 2, 11, 10, 14, 5, 0, 7, 1, 9, 7, 3, 3, 12, 12, 10, 7, 0, 2, 4, 3, 15, 11, 3, 7, 0, 15, 10, 7, 11, 1, 15, 10, 6, 2, 10, 14, 9, 13, 7, 10, 15, 9, 2, 12, 15, 9, 10, 6, 2, 8, 8>>)
    @@
    ("(Some(\"6164e20ac3de15cbe6873d15338ae39392784d729dee7a4530ca5135588ce24e\"), 3)0f953d12a939fe4ef354fff77564841627136a6bf3667b256c4a5cb6768788da140fc148a380d69b8753d296355d450a4c606dfa652482747ab694cd6ac23972140fc148a380d69b8753d296355d450a4c606dfa652482747ab694cd6ac23972"
        :> <<12, 4, 1, 4, 12, 5, 4, 4, 8, 3, 4, 9, 0, 10, 4, 8, 8, 4, 3, 6, 1, 7, 7, 1, 13, 1, 8, 12, 7, 7, 13, 12, 9, 14, 15, 7, 7, 5, 10, 10, 8, 0, 15, 15, 11, 0, 7, 3, 11, 14, 9, 1, 2, 10, 4, 1, 14, 9, 12, 10, 6, 3, 0, 1>>)))
    @@
    ((("(Some(\"6164e20ac3de15cbe6873d15338ae39392784d729dee7a4530ca5135588ce24e\"), 3)0f953d12a939fe4ef354fff77564841627136a6bf3667b256c4a5cb6768788da140fc148a380d69b8753d296355d450a4c606dfa652482747ab694cd6ac239727d3c95f98bd2b66af7c1d3a16cad13e01562539e02afc9695b86a5416092645f"
        :> <<1, 5, 0, 10, 7, 14, 8, 13, 14, 2, 8, 1, 8, 10, 8, 11, 2, 8, 9, 11, 7, 1, 15, 15, 11, 13, 2, 11, 13, 9, 4, 0, 4, 0, 13, 7, 4, 3, 9, 3, 7, 2, 15, 10, 8, 15, 2, 4, 8, 1, 12, 9, 2, 13, 12, 15, 6, 4, 1, 9, 5, 10, 0, 14>>)
    @@
    ("(Some(\"6164e20ac3de15cbe6873d15338ae39392784d729dee7a4530ca5135588ce24e\"), 3)0f953d12a939fe4ef354fff77564841627136a6bf3667b256c4a5cb6768788da7d3c95f98bd2b66af7c1d3a16cad13e01562539e02afc9695b86a5416092645f"
        :> <<4, 11, 3, 12, 3, 10, 6, 13, 15, 13, 4, 6, 8, 15, 14, 4, 11, 13, 4, 1, 9, 8, 14, 4, 7, 2, 7, 9, 10, 2, 8, 9, 7, 12, 6, 9, 6, 11, 15, 13, 7, 11, 8, 15, 5, 12, 11, 4, 6, 15, 4, 5, 10, 6, 0, 15, 1, 11, 10, 15, 13, 9, 11, 12>>))
    @@
    (("(Some(\"6164e20ac3de15cbe6873d15338ae39392784d729dee7a4530ca5135588ce24e\"), 3)0f953d12a939fe4ef354fff77564841627136a6bf3667b256c4a5cb6768788da7d3c95f98bd2b66af7c1d3a16cad13e01562539e02afc9695b86a5416092645f0af7ba66f9a27ed0e229221aada0cc88d5d6fd58f46f72eb626bd37b8e94efc8"
        :> <<11, 7, 12, 8, 9, 11, 12, 14, 1, 0, 0, 12, 12, 9, 8, 12, 12, 6, 6, 6, 13, 6, 15, 0, 7, 2, 14, 15, 6, 14, 3, 3, 0, 4, 8, 13, 4, 6, 3, 9, 4, 3, 15, 0, 1, 6, 9, 4, 12, 9, 3, 5, 7, 15, 0, 10, 13, 15, 2, 7, 10, 3, 7, 8>>)
    @@
    ("(Some(\"6164e20ac3de15cbe6873d15338ae39392784d729dee7a4530ca5135588ce24e\"), 3)0f953d12a939fe4ef354fff77564841627136a6bf3667b256c4a5cb6768788da7d3c95f98bd2b66af7c1d3a16cad13e01562539e02afc9695b86a5416092645f0f953d12a939fe4ef354fff77564841627136a6bf3667b256c4a5cb6768788da"
        :> <<12, 7, 10, 4, 11, 5, 4, 7, 5, 8, 2, 15, 7, 11, 4, 11, 2, 9, 7, 11, 15, 3, 5, 5, 5, 6, 9, 2, 4, 3, 12, 8, 0, 2, 1, 9, 9, 5, 12, 8, 2, 9, 0, 7, 3, 0, 3, 1, 7, 8, 8, 12, 2, 5, 10, 8, 11, 7, 2, 10, 15, 8, 2, 6>>))))))))
    @@
    ((((((("(Some(\"6164e20ac3de15cbe6873d15338ae39392784d729dee7a4530ca5135588ce24e\"), 3)0f953d12a939fe4ef354fff77564841627136a6bf3667b256c4a5cb6768788da7d3c95f98bd2b66af7c1d3a16cad13e01562539e02afc9695b86a5416092645f140fc148a380d69b8753d296355d450a4c606dfa652482747ab694cd6ac23972"
        :> <<3, 2, 6, 12, 6, 1, 10, 3, 11, 13, 5, 7, 7, 4, 7, 8, 6, 1, 4, 8, 15, 2, 1, 11, 15, 3, 5, 2, 10, 11, 15, 9, 13, 9, 5, 5, 14, 14, 7, 3, 13, 0, 11, 4, 2, 9, 4, 9, 5, 15, 3, 3, 1, 6, 6, 9, 0, 1, 10, 1, 6, 11, 3, 8>>)
    @@
    (("(Some(\"6164e20ac3de15cbe6873d15338ae39392784d729dee7a4530ca5135588ce24e\"), 3)0f953d12a939fe4ef354fff77564841627136a6bf3667b256c4a5cb6768788da7d3c95f98bd2b66af7c1d3a16cad13e01562539e02afc9695b86a5416092645f7d3c95f98bd2b66af7c1d3a16cad13e01562539e02afc9695b86a5416092645f"
        :> <<14, 9, 12, 5, 1, 12, 4, 9, 4, 4, 1, 2, 2, 0, 0, 6, 8, 3, 11, 6, 0, 10, 4, 15, 15, 7, 10, 7, 13, 1, 1, 0, 7, 6, 4, 10, 6, 1, 10, 13, 1, 3, 3, 15, 8, 4, 9, 12, 2, 4, 15, 0, 6, 1, 9, 14, 10, 4, 2, 3, 15, 12, 13, 11>>)
    @@
    ("(Some(\"6164e20ac3de15cbe6873d15338ae39392784d729dee7a4530ca5135588ce24e\"), 3)140fc148a380d69b8753d296355d450a4c606dfa652482747ab694cd6ac23972"
        :> <<1, 0, 8, 2, 14, 5, 8, 4, 11, 2, 15, 8, 12, 8, 1, 11, 7, 6, 4, 13, 1, 13, 11, 9, 9, 14, 6, 0, 12, 13, 7, 15, 14, 13, 1, 1, 2, 6, 12, 15, 7, 14, 1, 9, 2, 11, 13, 9, 11, 1, 9, 4, 11, 11, 1, 2, 9, 14, 12, 1, 3, 4, 4, 13>>)))
    @@
    (("(Some(\"6164e20ac3de15cbe6873d15338ae39392784d729dee7a4530ca5135588ce24e\"), 3)140fc148a380d69b8753d296355d450a4c606dfa652482747ab694cd6ac239720af7ba66f9a27ed0e229221aada0cc88d5d6fd58f46f72eb626bd37b8e94efc8"
        :> <<12, 14, 15, 4, 11, 0, 9, 10, 13, 7, 6, 9, 12, 3, 12, 1, 12, 13, 15, 0, 9, 6, 8, 5, 15, 9, 5, 10, 8, 8, 6, 11, 15, 14, 14, 15, 12, 2, 12, 5, 5, 11, 2, 5, 10, 1, 13, 14, 4, 13, 6, 14, 4, 15, 9, 10, 7, 0, 13, 8, 4, 10, 0, 11>>)
    @@
    (("(Some(\"6164e20ac3de15cbe6873d15338ae39392784d729dee7a4530ca5135588ce24e\"), 3)140fc148a380d69b8753d296355d450a4c606dfa652482747ab694cd6ac239720af7ba66f9a27ed0e229221aada0cc88d5d6fd58f46f72eb626bd37b8e94efc80af7ba66f9a27ed0e229221aada0cc88d5d6fd58f46f72eb626bd37b8e94efc8"
        :> <<4, 9, 10, 4, 0, 1, 7, 15, 13, 3, 8, 3, 8, 14, 15, 8, 13, 9, 6, 0, 6, 2, 15, 13, 8, 14, 13, 11, 14, 4, 6, 10, 14, 3, 0, 7, 6, 14, 15, 11, 3, 12, 3, 3, 0, 3, 10, 14, 2, 15, 1, 12, 9, 6, 10, 15, 3, 15, 13, 9, 7, 8, 11, 9>>)
    @@
    ("(Some(\"6164e20ac3de15cbe6873d15338ae39392784d729dee7a4530ca5135588ce24e\"), 3)140fc148a380d69b8753d296355d450a4c606dfa652482747ab694cd6ac239720af7ba66f9a27ed0e229221aada0cc88d5d6fd58f46f72eb626bd37b8e94efc80f953d12a939fe4ef354fff77564841627136a6bf3667b256c4a5cb6768788da"
        :> <<11, 3, 11, 6, 4, 13, 5, 4, 1, 1, 4, 4, 13, 9, 15, 7, 15, 2, 9, 5, 13, 4, 10, 5, 1, 7, 11, 4, 12, 13, 5, 1, 3, 0, 7, 8, 7, 6, 0, 9, 12, 1, 12, 10, 10, 1, 10, 13, 10, 9, 0, 15, 1, 1, 15, 0, 5, 9, 7, 5, 5, 6, 8, 8>>))))
    @@
    ((("(Some(\"6164e20ac3de15cbe6873d15338ae39392784d729dee7a4530ca5135588ce24e\"), 3)140fc148a380d69b8753d296355d450a4c606dfa652482747ab694cd6ac239720af7ba66f9a27ed0e229221aada0cc88d5d6fd58f46f72eb626bd37b8e94efc8140fc148a380d69b8753d296355d450a4c606dfa652482747ab694cd6ac23972"
        :> <<11, 11, 13, 9, 11, 0, 12, 2, 9, 11, 11, 9, 7, 2, 9, 5, 4, 6, 7, 0, 1, 12, 12, 8, 0, 5, 4, 13, 15, 14, 10, 14, 10, 7, 4, 0, 3, 6, 3, 3, 8, 11, 12, 5, 14, 8, 11, 0, 3, 14, 11, 10, 10, 4, 12, 6, 3, 6, 3, 1, 10, 13, 8, 9>>)
    @@
    (("(Some(\"6164e20ac3de15cbe6873d15338ae39392784d729dee7a4530ca5135588ce24e\"), 3)140fc148a380d69b8753d296355d450a4c606dfa652482747ab694cd6ac239720af7ba66f9a27ed0e229221aada0cc88d5d6fd58f46f72eb626bd37b8e94efc87d3c95f98bd2b66af7c1d3a16cad13e01562539e02afc9695b86a5416092645f"
        :> <<13, 4, 7, 1, 0, 7, 0, 9, 0, 2, 9, 12, 9, 12, 8, 8, 1, 9, 15, 11, 15, 1, 9, 6, 2, 10, 0, 5, 0, 10, 12, 15, 2, 14, 5, 12, 8, 11, 3, 5, 4, 11, 4, 7, 7, 15, 7, 14, 12, 11, 2, 5, 14, 7, 6, 9, 9, 14, 12, 10, 12, 0, 8, 11>>)
    @@
    ("(Some(\"6164e20ac3de15cbe6873d15338ae39392784d729dee7a4530ca5135588ce24e\"), 3)140fc148a380d69b8753d296355d450a4c606dfa652482747ab694cd6ac239720f953d12a939fe4ef354fff77564841627136a6bf3667b256c4a5cb6768788da"
        :> <<15, 11, 7, 13, 2, 0, 10, 15, 8, 14, 4, 10, 13, 15, 8, 8, 1, 1, 15, 8, 5, 2, 13, 11, 10, 4, 6, 3, 10, 12, 5, 9, 10, 7, 14, 9, 7, 7, 12, 11, 0, 14, 5, 15, 4, 3, 14, 15, 13, 0, 0, 15, 11, 5, 2, 2, 1, 10, 13, 5, 8, 10, 12, 6>>)))
    @@
    ((("(Some(\"6164e20ac3de15cbe6873d15338ae39392784d729dee7a4530ca5135588ce24e\"), 3)140fc148a380d69b8753d296355d450a4c606dfa652482747ab694cd6ac239720f953d12a939fe4ef354fff77564841627136a6bf3667b256c4a5cb6768788da0af7ba66f9a27ed0e229221aada0cc88d5d6fd58f46f72eb626bd37b8e94efc8"
        :> <<12, 8, 5, 1, 3, 7, 2, 7, 8, 6, 3, 13, 3, 15, 2, 0, 7, 10, 10, 14, 9, 2, 15, 3, 8, 3, 1, 13, 0, 8, 11, 8, 10, 1, 0, 1, 13, 15, 15, 12, 13, 10, 8, 3, 3, 3, 13, 0, 12, 9, 15, 12, 3, 8, 3, 1, 12, 13, 7, 11, 8, 13, 8, 5>>)
    @@
    ("(Some(\"6164e20ac3de15cbe6873d15338ae39392784d729dee7a4530ca5135588ce24e\"), 3)140fc148a380d69b8753d296355d450a4c606dfa652482747ab694cd6ac239720f953d12a939fe4ef354fff77564841627136a6bf3667b256c4a5cb6768788da0f953d12a939fe4ef354fff77564841627136a6bf3667b256c4a5cb6768788da"
        :> <<1, 7, 7, 5, 8, 4, 9, 10, 9, 0, 5, 5, 15, 0, 12, 12, 10, 15, 7, 2, 8, 2, 15, 0, 0, 0, 8, 2, 2, 8, 5, 8, 11, 5, 15, 15, 12, 8, 2, 8, 6, 6, 12, 8, 7, 10, 6, 6, 14, 2, 0, 6, 14, 11, 1, 11, 6, 14, 3, 6, 12, 3, 7, 8>>))
    @@
    (("(Some(\"6164e20ac3de15cbe6873d15338ae39392784d729dee7a4530ca5135588ce24e\"), 3)140fc148a380d69b8753d296355d450a4c606dfa652482747ab694cd6ac239720f953d12a939fe4ef354fff77564841627136a6bf3667b256c4a5cb6768788da140fc148a380d69b8753d296355d450a4c606dfa652482747ab694cd6ac23972"
        :> <<6, 13, 0, 12, 12, 3, 14, 3, 7, 11, 9, 7, 4, 5, 0, 15, 2, 6, 13, 12, 15, 15, 3, 0, 13, 9, 14, 12, 3, 5, 13, 7, 14, 6, 11, 2, 6, 12, 2, 7, 3, 10, 7, 11, 2, 5, 13, 6, 2, 12, 7, 13, 0, 13, 2, 1, 15, 14, 0, 8, 7, 6, 6, 4>>)
    @@
    ("(Some(\"6164e20ac3de15cbe6873d15338ae39392784d729dee7a4530ca5135588ce24e\"), 3)140fc148a380d69b8753d296355d450a4c606dfa652482747ab694cd6ac239720f953d12a939fe4ef354fff77564841627136a6bf3667b256c4a5cb6768788da7d3c95f98bd2b66af7c1d3a16cad13e01562539e02afc9695b86a5416092645f"
        :> <<7, 5, 10, 3, 6, 10, 4, 3, 10, 13, 12, 1, 3, 0, 3, 2, 13, 15, 10, 14, 5, 10, 6, 12, 14, 7, 9, 8, 0, 7, 11, 1, 4, 3, 6, 12, 4, 14, 0, 2, 9, 12, 7, 11, 13, 3, 10, 0, 9, 15, 12, 1, 11, 6, 10, 6, 1, 10, 1, 14, 7, 15, 10, 2>>)))))
    @@
    (((("(Some(\"6164e20ac3de15cbe6873d15338ae39392784d729dee7a4530ca5135588ce24e\"), 3)140fc148a380d69b8753d296355d450a4c606dfa652482747ab694cd6ac23972140fc148a380d69b8753d296355d450a4c606dfa652482747ab694cd6ac23972"
        :> <<10, 14, 1, 14, 8, 15, 10, 3, 9, 11, 4, 3, 14, 0, 13, 11, 1, 2, 12, 10, 5, 8, 5, 1, 0, 10, 10, 7, 14, 4, 14, 8, 10, 7, 6, 10, 2, 13, 12, 11, 15, 1, 14, 1, 10, 4, 1, 5, 15, 13, 14, 11, 3, 1, 13, 8, 2, 15, 0, 15, 4, 3, 12, 1>>)
    @@
    (("(Some(\"6164e20ac3de15cbe6873d15338ae39392784d729dee7a4530ca5135588ce24e\"), 3)140fc148a380d69b8753d296355d450a4c606dfa652482747ab694cd6ac23972140fc148a380d69b8753d296355d450a4c606dfa652482747ab694cd6ac239720af7ba66f9a27ed0e229221aada0cc88d5d6fd58f46f72eb626bd37b8e94efc8"
        :> <<14, 11, 8, 13, 1, 11, 3, 4, 6, 15, 6, 14, 4, 14, 2, 15, 15, 10, 12, 8, 0, 10, 14, 8, 3, 11, 3, 6, 1, 0, 14, 3, 6, 8, 13, 13, 15, 12, 14, 14, 7, 5, 13, 3, 11, 14, 9, 9, 2, 2, 3, 9, 10, 6, 13, 8, 12, 14, 5, 12, 9, 12, 14, 2>>)
    @@
    ("(Some(\"6164e20ac3de15cbe6873d15338ae39392784d729dee7a4530ca5135588ce24e\"), 3)140fc148a380d69b8753d296355d450a4c606dfa652482747ab694cd6ac23972140fc148a380d69b8753d296355d450a4c606dfa652482747ab694cd6ac239720f953d12a939fe4ef354fff77564841627136a6bf3667b256c4a5cb6768788da"
        :> <<12, 14, 8, 15, 1, 0, 8, 10, 14, 11, 9, 5, 14, 1, 1, 8, 4, 13, 8, 9, 14, 9, 8, 10, 7, 1, 8, 15, 12, 4, 6, 6, 10, 8, 14, 11, 10, 5, 15, 9, 15, 3, 15, 0, 7, 7, 2, 14, 0, 4, 4, 4, 14, 2, 14, 7, 6, 9, 2, 6, 7, 8, 8, 13>>)))
    @@
    (("(Some(\"6164e20ac3de15cbe6873d15338ae39392784d729dee7a4530ca5135588ce24e\"), 3)140fc148a380d69b8753d296355d450a4c606dfa652482747ab694cd6ac23972140fc148a380d69b8753d296355d450a4c606dfa652482747ab694cd6ac23972140fc148a380d69b8753d296355d450a4c606dfa652482747ab694cd6ac23972"
        :> <<4, 12, 9, 15, 15, 0, 12, 14, 5, 12, 1, 0, 15, 15, 5, 10, 9, 12, 12, 9, 5, 3, 4, 5, 7, 9, 0, 8, 4, 11, 8, 4, 12, 7, 14, 6, 12, 2, 14, 13, 0, 9, 9, 8, 6, 7, 10, 8, 9, 14, 10, 3, 4, 14, 12, 10, 9, 14, 4, 9, 6, 6, 13, 0>>)
    @@
    (("(Some(\"6164e20ac3de15cbe6873d15338ae39392784d729dee7a4530ca5135588ce24e\"), 3)140fc148a380d69b8753d296355d450a4c606dfa652482747ab694cd6ac23972140fc148a380d69b8753d296355d450a4c606dfa652482747ab694cd6ac239727d3c95f98bd2b66af7c1d3a16cad13e01562539e02afc9695b86a5416092645f"
        :> <<0, 8, 7, 11, 5, 5, 4, 1, 1, 11, 11, 8, 4, 5, 13, 4, 0, 4, 10, 4, 15, 8, 3, 15, 9, 5, 11, 14, 5, 3, 2, 5, 6, 6, 11, 2, 13, 12, 13, 15, 11, 2, 2, 13, 0, 2, 2, 6, 2, 10, 14, 2, 14, 8, 14, 15, 12, 5, 1, 7, 7, 1, 3, 10>>)
    @@
    ("(Some(\"6164e20ac3de15cbe6873d15338ae39392784d729dee7a4530ca5135588ce24e\"), 3)140fc148a380d69b8753d296355d450a4c606dfa652482747ab694cd6ac239727d3c95f98bd2b66af7c1d3a16cad13e01562539e02afc9695b86a5416092645f"
        :> <<6, 7, 15, 2, 6, 13, 2, 5, 0, 15, 1, 0, 8, 15, 4, 13, 4, 10, 11, 3, 5, 9, 7, 15, 8, 0, 7, 9, 4, 7, 4, 14, 8, 10, 8, 12, 0, 3, 1, 1, 0, 5, 10, 6, 9, 3, 1, 2, 0, 2, 13, 15, 3, 0, 15, 1, 4, 9, 6, 7, 8, 13, 10, 3>>))))
    @@
    ((("(Some(\"6164e20ac3de15cbe6873d15338ae39392784d729dee7a4530ca5135588ce24e\"), 3)140fc148a380d69b8753d296355d450a4c606dfa652482747ab694cd6ac239727d3c95f98bd2b66af7c1d3a16cad13e01562539e02afc9695b86a5416092645f0af7ba66f9a27ed0e229221aada0cc88d5d6fd58f46f72eb626bd37b8e94efc8"
        :> <<15, 12, 1, 13, 2, 6, 1, 13, 0, 2, 3, 11, 10, 1, 6, 6, 6, 10, 9, 3, 10, 15, 2, 14, 11, 5, 11, 3, 14, 4, 3, 7, 3, 15, 1, 4, 15, 12, 12, 5, 12, 7, 10, 11, 0, 10, 8, 7, 9, 10, 3, 3, 0, 3, 11, 10, 10, 13, 8, 15, 1, 5, 14, 12>>)
    @@
    (("(Some(\"6164e20ac3de15cbe6873d15338ae39392784d729dee7a4530ca5135588ce24e\"), 3)140fc148a380d69b8753d296355d450a4c606dfa652482747ab694cd6ac239727d3c95f98bd2b66af7c1d3a16cad13e01562539e02afc9695b86a5416092645f0f953d12a939fe4ef354fff77564841627136a6bf3667b256c4a5cb6768788da"
        :> <<7, 12, 10, 9, 1, 11, 14, 8, 13, 11, 9, 7, 4, 10, 15, 9, 8, 11, 15, 8, 14, 4, 2, 15, 15, 15, 3, 2, 3, 5, 1, 6, 4, 11, 1, 1, 14, 2, 15, 8, 8, 15, 8, 15, 0, 6, 0, 7, 12, 11, 6, 13, 0, 12, 11, 14, 4, 14, 14, 5, 13, 12, 11, 10>>)
    @@
    ("(Some(\"6164e20ac3de15cbe6873d15338ae39392784d729dee7a4530ca5135588ce24e\"), 3)140fc148a380d69b8753d296355d450a4c606dfa652482747ab694cd6ac239727d3c95f98bd2b66af7c1d3a16cad13e01562539e02afc9695b86a5416092645f140fc148a380d69b8753d296355d450a4c606dfa652482747ab694cd6ac23972"
        :> <<9, 6, 14, 8, 1, 3, 8, 0, 7, 1, 10, 0, 1, 15, 6, 0, 3, 4, 14, 13, 11, 11, 10, 3, 6, 13, 8, 9, 11, 4, 12, 4, 2, 3, 12, 6, 12, 14, 8, 5, 11, 3, 4, 12, 13, 4, 15, 14, 3, 1, 10, 4, 5, 10, 12, 1, 4, 1, 9, 14, 5, 8, 15, 9>>)))
    @@
    ((("(Some(\"6164e20ac3de15cbe6873d15338ae39392784d729dee7a4530ca5135588ce24e\"), 3)140fc148a380d69b8753d296355d450a4c606dfa652482747ab694cd6ac239727d3c95f98bd2b66af7c1d3a16cad13e01562539e02afc9695b86a5416092645f7d3c95f98bd2b66af7c1d3a16cad13e01562539e02afc9695b86a5416092645f"
        :> <<11, 2, 5, 2, 13, 6, 3, 13, 10, 1, 8, 7, 10, 5, 12, 6, 6, 11, 3, 7, 8, 8, 8, 1, 13, 8, 6, 0, 14, 0, 13, 8, 14, 9, 14, 3, 14, 6, 0, 15, 13, 4, 1, 7, 12, 3, 6, 3, 10, 6, 1, 5, 0, 9, 13, 4, 15, 6, 6, 8, 7, 14, 4, 13>>)
    @@
    ("(Some(\"6164e20ac3de15cbe6873d15338ae39392784d729dee7a4530ca5135588ce24e\"), 3)7d3c95f98bd2b66af7c1d3a16cad13e01562539e02afc9695b86a5416092645f"
        :> <<5, 4, 7, 7, 5, 11, 11, 10, 8, 5, 6, 7, 3, 14, 2, 5, 4, 15, 1, 14, 5, 14, 5, 7, 2, 4, 4, 2, 8, 0, 1, 5, 1, 3, 9, 3, 7, 7, 3, 3, 10, 6, 6, 9, 14, 13, 8, 6, 12, 9, 9, 2, 15, 8, 1, 11, 6, 8, 6, 2, 1, 14, 11, 0>>))
    @@
    (("(Some(\"6164e20ac3de15cbe6873d15338ae39392784d729dee7a4530ca5135588ce24e\"), 3)7d3c95f98bd2b66af7c1d3a16cad13e01562539e02afc9695b86a5416092645f0af7ba66f9a27ed0e229221aada0cc88d5d6fd58f46f72eb626bd37b8e94efc8"
        :> <<3, 6, 12, 5, 1, 6, 15, 9, 8, 1, 12, 3, 13, 7, 3, 3, 2, 5, 1, 10, 15, 6, 12, 4, 6, 11, 0, 0, 0, 8, 10, 12, 4, 10, 11, 12, 15, 5, 12, 1, 5, 9, 6, 12, 1, 4, 4, 10, 7, 5, 10, 4, 5, 8, 3, 4, 8, 5, 7, 8, 9, 10, 11, 9>>)
    @@
    ("(Some(\"6164e20ac3de15cbe6873d15338ae39392784d729dee7a4530ca5135588ce24e\"), 3)7d3c95f98bd2b66af7c1d3a16cad13e01562539e02afc9695b86a5416092645f0af7ba66f9a27ed0e229221aada0cc88d5d6fd58f46f72eb626bd37b8e94efc80af7ba66f9a27ed0e229221aada0cc88d5d6fd58f46f72eb626bd37b8e94efc8"
        :> <<1, 8, 10, 3, 8, 12, 8, 15, 3, 9, 14, 15, 10, 7, 11, 10, 12, 3, 11, 3, 15, 13, 8, 1, 4, 9, 9, 14, 11, 9, 15, 11, 4, 15, 14, 12, 11, 8, 11, 9, 6, 5, 0, 10, 15, 12, 11, 12, 14, 15, 6, 13, 15, 7, 2, 1, 11, 5, 15, 10, 3, 8, 7, 10>>))))))
    @@
    ((((("(Some(\"6164e20ac3de15cbe6873d15338ae39392784d729dee7a4530ca5135588ce24e\"), 3)7d3c95f98bd2b66af7c1d3a16cad13e01562539e02afc9695b86a5416092645f0af7ba66f9a27ed0e229221aada0cc88d5d6fd58f46f72eb626bd37b8e94efc80f953d12a939fe4ef354fff77564841627136a6bf3667b256c4a5cb6768788da"
        :> <<9, 4, 1, 8, 9, 7, 3, 5, 5, 0, 10, 0, 2, 6, 1, 5, 5, 10, 1, 12, 10, 0, 2, 10, 10, 9, 9, 0, 2, 1, 12, 0, 8, 15, 11, 3, 2, 14, 6, 9, 4, 10, 12, 3, 13, 11, 2, 7, 10, 4, 3, 2, 7, 8, 7, 13, 5, 2, 11, 13, 14, 10, 12, 12>>)
    @@
    (("(Some(\"6164e20ac3de15cbe6873d15338ae39392784d729dee7a4530ca5135588ce24e\"), 3)7d3c95f98bd2b66af7c1d3a16cad13e01562539e02afc9695b86a5416092645f0af7ba66f9a27ed0e229221aada0cc88d5d6fd58f46f72eb626bd37b8e94efc8140fc148a380d69b8753d296355d450a4c606dfa652482747ab694cd6ac23972"
        :> <<11, 2, 14, 8, 3, 14, 9, 1, 15, 12, 4, 12, 5, 0, 2, 4, 10, 0, 11, 11, 10, 8, 7, 0, 4, 0, 8, 2, 1, 12, 0, 5, 4, 14, 0, 14, 8, 1, 6, 1, 0, 12, 1, 9, 10, 15, 9, 2, 11, 6, 13, 4, 1, 8, 14, 6, 11, 14, 13, 0, 3, 10, 15, 15>>)
    @@
    ("(Some(\"6164e20ac3de15cbe6873d15338ae39392784d729dee7a4530ca5135588ce24e\"), 3)7d3c95f98bd2b66af7c1d3a16cad13e01562539e02afc9695b86a5416092645f0af7ba66f9a27ed0e229221aada0cc88d5d6fd58f46f72eb626bd37b8e94efc87d3c95f98bd2b66af7c1d3a16cad13e01562539e02afc9695b86a5416092645f"
        :> <<11, 15, 10, 3, 1, 1, 11, 11, 7, 0, 13, 12, 14, 11, 14, 15, 11, 2, 13, 6, 0, 7, 13, 11, 15, 10, 11, 13, 12, 4, 7, 15, 10, 0, 13, 15, 7, 12, 13, 7, 9, 7, 11, 11, 7, 5, 9, 9, 7, 8, 15, 14, 15, 4, 8, 7, 15, 6, 7, 3, 14, 9, 7, 14>>)))
    @@
    (("(Some(\"6164e20ac3de15cbe6873d15338ae39392784d729dee7a4530ca5135588ce24e\"), 3)7d3c95f98bd2b66af7c1d3a16cad13e01562539e02afc9695b86a5416092645f0f953d12a939fe4ef354fff77564841627136a6bf3667b256c4a5cb6768788da"
        :> <<4, 15, 6, 8, 9, 2, 4, 4, 9, 15, 4, 9, 10, 11, 1, 5, 3, 6, 9, 13, 0, 2, 1, 2, 3, 9, 14, 2, 15, 5, 3, 1, 14, 1, 12, 7, 6, 3, 12, 6, 13, 2, 3, 11, 6, 3, 8, 5, 10, 4, 12, 9, 11, 10, 10, 3, 8, 4, 2, 0, 12, 15, 11, 12>>)
    @@
    (("(Some(\"6164e20ac3de15cbe6873d15338ae39392784d729dee7a4530ca5135588ce24e\"), 3)7d3c95f98bd2b66af7c1d3a16cad13e01562539e02afc9695b86a5416092645f0f953d12a939fe4ef354fff77564841627136a6bf3667b256c4a5cb6768788da0af7ba66f9a27ed0e229221aada0cc88d5d6fd58f46f72eb626bd37b8e94efc8"
        :> <<13, 11, 8, 6, 13, 7, 11, 3, 4, 0, 1, 0, 4, 4, 5, 8, 4, 4, 14, 1, 9, 0, 1, 7, 5, 5, 9, 7, 15, 15, 15, 2, 14, 2, 10, 7, 9, 8, 1, 10, 2, 1, 11, 12, 7, 9, 0, 3, 12, 14, 0, 5, 13, 12, 10, 9, 13, 12, 10, 14, 0, 11, 14, 7>>)
    @@
    ("(Some(\"6164e20ac3de15cbe6873d15338ae39392784d729dee7a4530ca5135588ce24e\"), 3)7d3c95f98bd2b66af7c1d3a16cad13e01562539e02afc9695b86a5416092645f0f953d12a939fe4ef354fff77564841627136a6bf3667b256c4a5cb6768788da0f953d12a939fe4ef354fff77564841627136a6bf3667b256c4a5cb6768788da"
        :> <<11, 12, 10, 2, 0, 15, 4, 5, 4, 12, 3, 14, 15, 6, 13, 0, 12, 8, 1, 15, 2, 13, 2, 10, 14, 6, 1, 2, 12, 13, 11, 9, 13, 12, 12, 8, 3, 4, 9, 4, 15, 13, 10, 11, 8, 7, 0, 9, 12, 11, 9, 10, 6, 10, 4, 1, 15, 8, 4, 10, 14, 1, 14, 15>>))))
    @@
    ((("(Some(\"6164e20ac3de15cbe6873d15338ae39392784d729dee7a4530ca5135588ce24e\"), 3)7d3c95f98bd2b66af7c1d3a16cad13e01562539e02afc9695b86a5416092645f0f953d12a939fe4ef354fff77564841627136a6bf3667b256c4a5cb6768788da140fc148a380d69b8753d296355d450a4c606dfa652482747ab694cd6ac23972"
        :> <<1, 3, 14, 9, 13, 1, 15, 0, 10, 7, 14, 10, 8, 4, 0, 10, 15, 6, 6, 4, 6, 12, 13, 7, 10, 4, 4, 14, 12, 8, 13, 13, 12, 13, 15, 1, 7, 0, 7, 14, 14, 1, 15, 1, 9, 1, 12, 15, 9, 5, 11, 14, 15, 15, 13, 1, 12, 3, 15, 2, 0, 14, 1, 15>>)
    @@
    (("(Some(\"6164e20ac3de15cbe6873d15338ae39392784d729dee7a4530ca5135588ce24e\"), 3)7d3c95f98bd2b66af7c1d3a16cad13e01562539e02afc9695b86a5416092645f0f953d12a939fe4ef354fff77564841627136a6bf3667b256c4a5cb6768788da7d3c95f98bd2b66af7c1d3a16cad13e01562539e02afc9695b86a5416092645f"
        :> <<4, 3, 9, 7, 13, 12, 6, 10, 13, 1, 7, 9, 5, 13, 11, 6, 3, 10, 1, 3, 9, 3, 5, 15, 10, 1, 13, 6, 11, 15, 5, 11, 11, 8, 12, 6, 0, 9, 12, 0, 11, 13, 10, 9, 11, 7, 13, 4, 7, 12, 13, 4, 1, 5, 15, 14, 15, 6, 15, 11, 13, 9, 7, 8>>)
    @@
    ("(Some(\"6164e20ac3de15cbe6873d15338ae39392784d729dee7a4530ca5135588ce24e\"), 3)7d3c95f98bd2b66af7c1d3a16cad13e01562539e02afc9695b86a5416092645f140fc148a380d69b8753d296355d450a4c606dfa652482747ab694cd6ac23972"
        :> <<3, 15, 8, 12, 14, 0, 12, 9, 14, 9, 4, 8, 7, 7, 4, 7, 15, 7, 8, 11, 11, 1, 11, 7, 5, 6, 2, 0, 10, 6, 15, 6, 6, 5, 12, 8, 0, 6, 15, 7, 15, 2, 7, 4, 10, 6, 13, 1, 8, 14, 8, 14, 4, 13, 15, 5, 15, 8, 10, 4, 7, 14, 0, 4>>)))
    @@
    ((("(Some(\"6164e20ac3de15cbe6873d15338ae39392784d729dee7a4530ca5135588ce24e\"), 3)7d3c95f98bd2b66af7c1d3a16cad13e01562539e02afc9695b86a5416092645f140fc148a380d69b8753d296355d450a4c606dfa652482747ab694cd6ac239720af7ba66f9a27ed0e229221aada0cc88d5d6fd58f46f72eb626bd37b8e94efc8"
        :> <<0, 14, 0, 7, 3, 9, 9, 13, 4, 13, 0, 3, 6, 11, 8, 10, 15, 11, 6, 5, 13, 11, 3, 12, 13, 12, 12, 0, 4, 1, 2, 15, 15, 11, 9, 8, 15, 14, 2, 8, 3, 11, 15, 12, 11, 0, 0, 5, 9, 13, 5, 3, 9, 6, 12, 10, 14, 6, 5, 4, 8, 1, 6, 8>>)
    @@
    ("(Some(\"6164e20ac3de15cbe6873d15338ae39392784d729dee7a4530ca5135588ce24e\"), 3)7d3c95f98bd2b66af7c1d3a16cad13e01562539e02afc9695b86a5416092645f140fc148a380d69b8753d296355d450a4c606dfa652482747ab694cd6ac239720f953d12a939fe4ef354fff77564841627136a6bf3667b256c4a5cb6768788da"
        :> <<15, 9, 0, 8, 7, 7, 10, 0, 4, 15, 11, 12, 5, 1, 4, 11, 3, 7, 1, 14, 5, 2, 10, 9, 5, 1, 2, 1, 10, 12, 4, 10, 13, 10, 6, 11, 12, 7, 0, 9, 10, 14, 3, 1, 8, 1, 0, 12, 3, 15, 11, 4, 12, 11, 1, 11, 11, 5, 12, 6, 1, 12, 11, 15>>))
    @@
    (("(Some(\"6164e20ac3de15cbe6873d15338ae39392784d729dee7a4530ca5135588ce24e\"), 3)7d3c95f98bd2b66af7c1d3a16cad13e01562539e02afc9695b86a5416092645f140fc148a380d69b8753d296355d450a4c606dfa652482747ab694cd6ac23972140fc148a380d69b8753d296355d450a4c606dfa652482747ab694cd6ac23972"
        :> <<13, 12, 1, 1, 13, 14, 10, 3, 14, 1, 3, 0, 5, 0, 2, 10, 1, 0, 3, 15, 6, 0, 8, 15, 9, 0, 13, 11, 3, 9, 11, 0, 15, 10, 4, 6, 0, 8, 1, 7, 12, 1, 3, 10, 14, 0, 15, 6, 4, 14, 0, 4, 6, 9, 14, 2, 1, 0, 13, 12, 10, 2, 4, 0>>)
    @@
    ("(Some(\"6164e20ac3de15cbe6873d15338ae39392784d729dee7a4530ca5135588ce24e\"), 3)7d3c95f98bd2b66af7c1d3a16cad13e01562539e02afc9695b86a5416092645f140fc148a380d69b8753d296355d450a4c606dfa652482747ab694cd6ac239727d3c95f98bd2b66af7c1d3a16cad13e01562539e02afc9695b86a5416092645f"
        :> <<12, 10, 13, 10, 3, 4, 3, 5, 2, 15, 6, 4, 7, 15, 14, 8, 5, 14, 1, 4, 5, 0, 9, 2, 5, 5, 9, 10, 6, 10, 14, 15, 9, 2, 2, 14, 3, 1, 11, 1, 10, 4, 4, 3, 8, 10, 8, 13, 15, 3, 12, 8, 7, 9, 15, 6, 0, 4, 0, 9, 14, 7, 11, 7>>)))))
    @@
    (((("(Some(\"6164e20ac3de15cbe6873d15338ae39392784d729dee7a4530ca5135588ce24e\"), 3)7d3c95f98bd2b66af7c1d3a16cad13e01562539e02afc9695b86a5416092645f7d3c95f98bd2b66af7c1d3a16cad13e01562539e02afc9695b86a5416092645f"
        :> <<7, 12, 13, 9, 2, 4, 10, 8, 2, 13, 1, 10, 7, 11, 2, 13, 14, 6, 0, 6, 7, 6, 8, 9, 14, 6, 10, 15, 6, 5, 14, 11, 11, 5, 8, 7, 6, 15, 14, 2, 11, 8, 10, 11, 8, 9, 7, 4, 4, 10, 6, 10, 2, 12, 9, 0, 2, 1, 10, 0, 11, 14, 12, 13>>)
    @@
    (("(Some(\"6164e20ac3de15cbe6873d15338ae39392784d729dee7a4530ca5135588ce24e\"), 3)7d3c95f98bd2b66af7c1d3a16cad13e01562539e02afc9695b86a5416092645f7d3c95f98bd2b66af7c1d3a16cad13e01562539e02afc9695b86a5416092645f0af7ba66f9a27ed0e229221aada0cc88d5d6fd58f46f72eb626bd37b8e94efc8"
        :> <<2, 6, 2, 10, 6, 13, 7, 2, 14, 15, 2, 12, 0, 4, 6, 12, 4, 12, 9, 7, 4, 10, 12, 14, 3, 14, 8, 10, 9, 2, 10, 11, 3, 6, 8, 7, 8, 3, 11, 4, 10, 10, 13, 8, 11, 4, 13, 2, 11, 5, 8, 0, 1, 1, 1, 6, 8, 10, 8, 5, 9, 5, 1, 11>>)
    @@
    ("(Some(\"6164e20ac3de15cbe6873d15338ae39392784d729dee7a4530ca5135588ce24e\"), 3)7d3c95f98bd2b66af7c1d3a16cad13e01562539e02afc9695b86a5416092645f7d3c95f98bd2b66af7c1d3a16cad13e01562539e02afc9695b86a5416092645f0f953d12a939fe4ef354fff77564841627136a6bf3667b256c4a5cb6768788da"
        :> <<0, 11, 14, 11, 6, 8, 1, 15, 13, 13, 6, 8, 10, 10, 3, 3, 15, 14, 12, 3, 1, 15, 2, 3, 7, 9, 14, 1, 0, 0, 13, 3, 11, 10, 13, 13, 9, 0, 1, 8, 8, 5, 7, 3, 5, 7, 13, 7, 8, 8, 10, 14, 13, 14, 8, 8, 1, 10, 2, 2, 9, 6, 13, 3>>)))
    @@
    (("(Some(\"6164e20ac3de15cbe6873d15338ae39392784d729dee7a4530ca5135588ce24e\"), 3)7d3c95f98bd2b66af7c1d3a16cad13e01562539e02afc9695b86a5416092645f7d3c95f98bd2b66af7c1d3a16cad13e01562539e02afc9695b86a5416092645f140fc148a380d69b8753d296355d450a4c606dfa652482747ab694cd6ac23972"
        :> <<14, 11, 1, 8, 0, 10, 11, 1, 10, 1, 1, 7, 0, 12, 13, 6, 8, 14, 14, 14, 8, 10, 7, 14, 9, 7, 7, 8, 6, 1, 12, 8, 13, 12, 1, 10, 2, 10, 14, 4, 4, 10, 15, 3, 1, 6, 0, 13, 5, 7, 14, 4, 9, 12, 7, 5, 15, 14, 11, 3, 2, 15, 12, 4>>)
    @@
    (("(Some(\"6164e20ac3de15cbe6873d15338ae39392784d729dee7a4530ca5135588ce24e\"), 3)7d3c95f98bd2b66af7c1d3a16cad13e01562539e02afc9695b86a5416092645f7d3c95f98bd2b66af7c1d3a16cad13e01562539e02afc9695b86a5416092645f7d3c95f98bd2b66af7c1d3a16cad13e01562539e02afc9695b86a5416092645f"
        :> <<1, 10, 11, 5, 9, 8, 8, 3, 6, 11, 14, 7, 4, 13, 1, 1, 13, 6, 4, 13, 13, 3, 14, 3, 11, 7, 13, 7, 6, 4, 8, 4, 7, 11, 8, 14, 11, 13, 8, 13, 7, 12, 7, 7, 2, 9, 15, 8, 9, 2, 1, 1, 6, 10, 5, 1, 7, 12, 4, 4, 7, 14, 6, 7>>)
    @@
    ("(Some(\"6164e20ac3de15cbe6873d15338ae39392784d729dee7a4530ca5135588ce24e\"), 4)"
        :> <<11, 9, 11, 6, 8, 7, 3, 3, 13, 8, 7, 15, 0, 11, 14, 14, 4, 6, 10, 15, 11, 15, 5, 14, 15, 5, 1, 3, 0, 6, 13, 11, 13, 15, 1, 0, 1, 9, 14, 1, 4, 15, 4, 15, 15, 1, 15, 2, 6, 14, 5, 8, 14, 9, 3, 6, 12, 10, 11, 3, 9, 5, 0, 7>>))))
    @@
    ((("(Some(\"6164e20ac3de15cbe6873d15338ae39392784d729dee7a4530ca5135588ce24e\"), 4)0af7ba66f9a27ed0e229221aada0cc88d5d6fd58f46f72eb626bd37b8e94efc8"
        :> <<5, 8, 2, 5, 7, 8, 0, 12, 6, 3, 10, 1, 13, 9, 6, 7, 10, 1, 3, 9, 11, 9, 6, 4, 4, 11, 12, 13, 10, 13, 12, 6, 10, 13, 7, 4, 12, 14, 0, 12, 4, 7, 11, 9, 10, 2, 1, 1, 6, 8, 15, 6, 3, 11, 15, 4, 4, 5, 3, 14, 14, 11, 15, 0>>)
    @@
    (("(Some(\"6164e20ac3de15cbe6873d15338ae39392784d729dee7a4530ca5135588ce24e\"), 4)0af7ba66f9a27ed0e229221aada0cc88d5d6fd58f46f72eb626bd37b8e94efc80af7ba66f9a27ed0e229221aada0cc88d5d6fd58f46f72eb626bd37b8e94efc8"
        :> <<15, 7, 15, 1, 7, 2, 12, 11, 9, 6, 5, 10, 9, 9, 2, 4, 9, 10, 13, 9, 12, 0, 13, 3, 6, 6, 2, 5, 6, 8, 5, 14, 0, 3, 11, 5, 14, 4, 8, 11, 10, 8, 7, 15, 8, 4, 13, 3, 3, 12, 3, 14, 10, 13, 2, 7, 1, 13, 10, 9, 10, 7, 10, 13>>)
    @@
    ("(Some(\"6164e20ac3de15cbe6873d15338ae39392784d729dee7a4530ca5135588ce24e\"), 4)0af7ba66f9a27ed0e229221aada0cc88d5d6fd58f46f72eb626bd37b8e94efc80af7ba66f9a27ed0e229221aada0cc88d5d6fd58f46f72eb626bd37b8e94efc80af7ba66f9a27ed0e229221aada0cc88d5d6fd58f46f72eb626bd37b8e94efc8"
        :> <<9, 7, 10, 2, 3, 0, 11, 1, 10, 11, 11, 7, 13, 14, 11, 11, 10, 15, 12, 3, 4, 3, 7, 0, 8, 2, 10, 10, 9, 14, 7, 1, 8, 1, 12, 9, 6, 9, 9, 8, 14, 5, 10, 12, 3, 3, 3, 8, 1, 5, 15, 0, 11, 4, 9, 9, 13, 4, 1, 12, 2, 2, 2, 14>>)))
    @@
    ((("(Some(\"6164e20ac3de15cbe6873d15338ae39392784d729dee7a4530ca5135588ce24e\"), 4)0af7ba66f9a27ed0e229221aada0cc88d5d6fd58f46f72eb626bd37b8e94efc80af7ba66f9a27ed0e229221aada0cc88d5d6fd58f46f72eb626bd37b8e94efc80f953d12a939fe4ef354fff77564841627136a6bf3667b256c4a5cb6768788da"
        :> <<1, 4, 4, 0, 2, 15, 1, 5, 10, 2, 1, 5, 7, 10, 0, 15, 1, 3, 3, 11, 2, 0, 15, 5, 7, 5, 5, 11, 6, 7, 8, 1, 13, 3, 4, 4, 6, 5, 3, 7, 3, 13, 3, 7, 7, 13, 0, 9, 10, 12, 5, 2, 13, 14, 5, 14, 14, 0, 4, 5, 3, 6, 9, 10>>)
    @@
    ("(Some(\"6164e20ac3de15cbe6873d15338ae39392784d729dee7a4530ca5135588ce24e\"), 4)0af7ba66f9a27ed0e229221aada0cc88d5d6fd58f46f72eb626bd37b8e94efc80af7ba66f9a27ed0e229221aada0cc88d5d6fd58f46f72eb626bd37b8e94efc8140fc148a380d69b8753d296355d450a4c606dfa652482747ab694cd6ac23972"
        :> <<0, 4, 8, 9, 8, 12, 5, 11, 15, 0, 10, 2, 14, 12, 1, 0, 11, 12, 0, 8, 2, 6, 10, 7, 5, 12, 2, 0, 6, 5, 12, 6, 6, 4, 0, 10, 10, 8, 1, 12, 10, 6, 11, 5, 8, 11, 11, 4, 7, 0, 6, 1, 6, 2, 8, 4, 1, 14, 0, 13, 13, 2, 0, 2>>))
    @@
    (("(Some(\"6164e20ac3de15cbe6873d15338ae39392784d729dee7a4530ca5135588ce24e\"), 4)0af7ba66f9a27ed0e229221aada0cc88d5d6fd58f46f72eb626bd37b8e94efc80af7ba66f9a27ed0e229221aada0cc88d5d6fd58f46f72eb626bd37b8e94efc87d3c95f98bd2b66af7c1d3a16cad13e01562539e02afc9695b86a5416092645f"
        :> <<15, 13, 5, 6, 8, 9, 6, 11, 5, 12, 0, 13, 8, 11, 1, 15, 2, 4, 0, 14, 12, 14, 0, 0, 7, 5, 15, 9, 11, 9, 1, 9, 12, 2, 6, 6, 9, 11, 4, 10, 4, 3, 4, 4, 9, 8, 4, 10, 13, 10, 3, 15, 5, 14, 8, 2, 13, 8, 13, 5, 13, 5, 1, 10>>)
    @@
    ("(Some(\"6164e20ac3de15cbe6873d15338ae39392784d729dee7a4530ca5135588ce24e\"), 4)0af7ba66f9a27ed0e229221aada0cc88d5d6fd58f46f72eb626bd37b8e94efc80f953d12a939fe4ef354fff77564841627136a6bf3667b256c4a5cb6768788da"
        :> <<11, 8, 14, 3, 2, 0, 6, 12, 9, 6, 14, 14, 11, 0, 1, 15, 14, 8, 9, 14, 3, 11, 5, 4, 12, 9, 0, 13, 15, 3, 0, 11, 9, 1, 6, 9, 11, 5, 3, 15, 11, 2, 9, 1, 11, 2, 9, 4, 8, 6, 15, 1, 1, 15, 1, 7, 1, 15, 3, 5, 13, 0, 1, 11>>)))))))
    @@
    (((((("(Some(\"6164e20ac3de15cbe6873d15338ae39392784d729dee7a4530ca5135588ce24e\"), 4)0af7ba66f9a27ed0e229221aada0cc88d5d6fd58f46f72eb626bd37b8e94efc80f953d12a939fe4ef354fff77564841627136a6bf3667b256c4a5cb6768788da0af7ba66f9a27ed0e229221aada0cc88d5d6fd58f46f72eb626bd37b8e94efc8"
        :> <<2, 3, 7, 6, 8, 15, 3, 7, 11, 15, 3, 11, 2, 15, 1, 9, 13, 5, 11, 3, 8, 3, 15, 13, 14, 14, 9, 2, 4, 1, 10, 2, 3, 4, 8, 7, 0, 5, 10, 14, 14, 11, 8, 8, 2, 9, 13, 1, 2, 8, 3, 10, 9, 14, 8, 0, 11, 12, 1, 10, 9, 3, 3, 13>>)
    @@
    (("(Some(\"6164e20ac3de15cbe6873d15338ae39392784d729dee7a4530ca5135588ce24e\"), 4)0af7ba66f9a27ed0e229221aada0cc88d5d6fd58f46f72eb626bd37b8e94efc80f953d12a939fe4ef354fff77564841627136a6bf3667b256c4a5cb6768788da0f953d12a939fe4ef354fff77564841627136a6bf3667b256c4a5cb6768788da"
        :> <<5, 12, 2, 4, 15, 1, 5, 8, 2, 7, 15, 5, 3, 2, 14, 14, 2, 3, 12, 8, 8, 15, 5, 0, 13, 3, 1, 14, 1, 0, 7, 3, 9, 7, 13, 0, 6, 8, 4, 2, 0, 3, 5, 10, 11, 0, 5, 5, 8, 2, 0, 10, 12, 6, 11, 13, 12, 6, 13, 6, 6, 15, 5, 6>>)
    @@
    ("(Some(\"6164e20ac3de15cbe6873d15338ae39392784d729dee7a4530ca5135588ce24e\"), 4)0af7ba66f9a27ed0e229221aada0cc88d5d6fd58f46f72eb626bd37b8e94efc80f953d12a939fe4ef354fff77564841627136a6bf3667b256c4a5cb6768788da140fc148a380d69b8753d296355d450a4c606dfa652482747ab694cd6ac23972"
        :> <<15, 12, 8, 9, 0, 15, 14, 14, 0, 1, 5, 14, 6, 1, 12, 12, 11, 6, 14, 8, 15, 12, 13, 7, 13, 8, 0, 11, 14, 12, 13, 6, 4, 11, 14, 5, 14, 9, 12, 15, 1, 13, 5, 9, 14, 0, 8, 14, 7, 1, 4, 13, 6, 5, 15, 4, 1, 0, 11, 14, 2, 0, 15, 6>>)))
    @@
    (("(Some(\"6164e20ac3de15cbe6873d15338ae39392784d729dee7a4530ca5135588ce24e\"), 4)0af7ba66f9a27ed0e229221aada0cc88d5d6fd58f46f72eb626bd37b8e94efc80f953d12a939fe4ef354fff77564841627136a6bf3667b256c4a5cb6768788da7d3c95f98bd2b66af7c1d3a16cad13e01562539e02afc9695b86a5416092645f"
        :> <<5, 8, 6, 15, 9, 4, 0, 4, 7, 7, 2, 15, 12, 13, 13, 3, 4, 2, 14, 9, 1, 4, 12, 15, 1, 8, 6, 0, 2, 5, 10, 9, 9, 3, 6, 9, 9, 10, 14, 15, 3, 5, 7, 13, 9, 15, 7, 8, 10, 14, 14, 1, 13, 15, 13, 2, 12, 2, 11, 13, 8, 3, 13, 12>>)
    @@
    (("(Some(\"6164e20ac3de15cbe6873d15338ae39392784d729dee7a4530ca5135588ce24e\"), 4)0af7ba66f9a27ed0e229221aada0cc88d5d6fd58f46f72eb626bd37b8e94efc8140fc148a380d69b8753d296355d450a4c606dfa652482747ab694cd6ac23972"
        :> <<5, 3, 6, 4, 0, 1, 10, 15, 13, 2, 9, 6, 8, 14, 8, 11, 7, 1, 6, 7, 15, 10, 10, 11, 3, 10, 9, 0, 5, 8, 14, 8, 1, 3, 13, 11, 11, 7, 3, 11, 0, 5, 6, 12, 9, 9, 2, 1, 2, 4, 10, 5, 0, 10, 11, 15, 0, 5, 13, 11, 8, 5, 8, 2>>)
    @@
    ("(Some(\"6164e20ac3de15cbe6873d15338ae39392784d729dee7a4530ca5135588ce24e\"), 4)0af7ba66f9a27ed0e229221aada0cc88d5d6fd58f46f72eb626bd37b8e94efc8140fc148a380d69b8753d296355d450a4c606dfa652482747ab694cd6ac239720af7ba66f9a27ed0e229221aada0cc88d5d6fd58f46f72eb626bd37b8e94efc8"
        :> <<11, 3, 8, 15, 3, 6, 2, 13, 5, 6, 8, 14, 10, 15, 15, 10, 0, 15, 4, 12, 13, 2, 12, 13, 14, 10, 14, 12, 8, 4, 5, 5, 10, 8, 6, 1, 2, 3, 3, 3, 4, 6, 2, 3, 9, 11, 14, 0, 6, 14, 13, 11, 10, 3, 12, 8, 5, 2, 7, 1, 7, 14, 2, 9>>))))
    @@
    ((("(Some(\"6164e20ac3de15cbe6873d15338ae39392784d729dee7a4530ca5135588ce24e\"), 4)0af7ba66f9a27ed0e229221aada0cc88d5d6fd58f46f72eb626bd37b8e94efc8140fc148a380d69b8753d296355d450a4c606dfa652482747ab694cd6ac239720f953d12a939fe4ef354fff77564841627136a6bf3667b256c4a5cb6768788da"
        :> <<8, 1, 11, 8, 3, 9, 2, 5, 8, 3, 8, 13, 1, 15, 9, 14, 6, 15, 14, 0, 13, 14, 14, 12, 7, 6, 15, 14, 9, 8, 2, 8, 14, 8, 6, 4, 2, 7, 15, 11, 12, 8, 13, 5, 9, 4, 7, 4, 11, 15, 9, 10, 6, 8, 14, 13, 2, 10, 6, 5, 12, 13, 1, 9>>)
    @@
    (("(Some(\"6164e20ac3de15cbe6873d15338ae39392784d729dee7a4530ca5135588ce24e\"), 4)0af7ba66f9a27ed0e229221aada0cc88d5d6fd58f46f72eb626bd37b8e94efc8140fc148a380d69b8753d296355d450a4c606dfa652482747ab694cd6ac23972140fc148a380d69b8753d296355d450a4c606dfa652482747ab694cd6ac23972"
        :> <<0, 6, 0, 15, 1, 5, 1, 10, 4, 10, 3, 10, 0, 13, 10, 14, 2, 15, 0, 2, 6, 4, 11, 9, 2, 10, 13, 5, 5, 15, 11, 8, 12, 14, 12, 8, 0, 1, 14, 4, 1, 9, 0, 12, 1, 14, 13, 1, 13, 7, 12, 11, 6, 7, 6, 11, 5, 14, 13, 10, 6, 6, 13, 7>>)
    @@
    ("(Some(\"6164e20ac3de15cbe6873d15338ae39392784d729dee7a4530ca5135588ce24e\"), 4)0af7ba66f9a27ed0e229221aada0cc88d5d6fd58f46f72eb626bd37b8e94efc8140fc148a380d69b8753d296355d450a4c606dfa652482747ab694cd6ac239727d3c95f98bd2b66af7c1d3a16cad13e01562539e02afc9695b86a5416092645f"
        :> <<10, 8, 0, 11, 3, 7, 8, 2, 12, 11, 8, 9, 8, 3, 5, 7, 6, 15, 12, 8, 15, 3, 7, 2, 2, 5, 6, 7, 10, 4, 3, 6, 14, 7, 1, 7, 2, 13, 8, 3, 7, 5, 6, 8, 10, 7, 3, 0, 6, 15, 9, 14, 15, 6, 8, 8, 11, 15, 11, 4, 14, 10, 0, 13>>)))
    @@
    ((("(Some(\"6164e20ac3de15cbe6873d15338ae39392784d729dee7a4530ca5135588ce24e\"), 4)0af7ba66f9a27ed0e229221aada0cc88d5d6fd58f46f72eb626bd37b8e94efc87d3c95f98bd2b66af7c1d3a16cad13e01562539e02afc9695b86a5416092645f"
        :> <<6, 9, 3, 15, 0, 6, 11, 5, 2, 5, 12, 1, 10, 11, 7, 12, 9, 7, 15, 0, 3, 14, 12, 6, 12, 0, 12, 11, 10, 15, 6, 3, 6, 3, 14, 0, 11, 13, 5, 5, 10, 12, 5, 13, 5, 8, 6, 5, 14, 6, 4, 0, 14, 1, 1, 8, 13, 14, 7, 15, 7, 2, 13, 8>>)
    @@
    ("(Some(\"6164e20ac3de15cbe6873d15338ae39392784d729dee7a4530ca5135588ce24e\"), 4)0af7ba66f9a27ed0e229221aada0cc88d5d6fd58f46f72eb626bd37b8e94efc87d3c95f98bd2b66af7c1d3a16cad13e01562539e02afc9695b86a5416092645f0af7ba66f9a27ed0e229221aada0cc88d5d6fd58f46f72eb626bd37b8e94efc8"
        :> <<15, 2, 9, 12, 0, 15, 10, 5, 8, 5, 10, 11, 10, 10, 14, 9, 5, 8, 1, 14, 2, 1, 14, 2, 3, 15, 8, 15, 5, 8, 10, 6, 2, 14, 6, 5, 1, 13, 13, 3, 4, 10, 7, 7, 7, 5, 13, 12, 0, 11, 1, 9, 9, 12, 0, 13, 1, 11, 4, 13, 11, 9, 8, 6>>))
    @@
    (("(Some(\"6164e20ac3de15cbe6873d15338ae39392784d729dee7a4530ca5135588ce24e\"), 4)0af7ba66f9a27ed0e229221aada0cc88d5d6fd58f46f72eb626bd37b8e94efc87d3c95f98bd2b66af7c1d3a16cad13e01562539e02afc9695b86a5416092645f0f953d12a939fe4ef354fff77564841627136a6bf3667b256c4a5cb6768788da"
        :> <<14, 4, 14, 15, 11, 7, 2, 7, 10, 1, 4, 10, 6, 15, 0, 14, 12, 15, 12, 7, 6, 9, 13, 6, 14, 2, 12, 14, 15, 14, 7, 5, 14, 5, 3, 5, 5, 4, 4, 13, 7, 7, 1, 10, 9, 3, 1, 13, 4, 1, 5, 13, 2, 3, 4, 3, 5, 4, 3, 15, 12, 0, 4, 1>>)
    @@
    ("(Some(\"6164e20ac3de15cbe6873d15338ae39392784d729dee7a4530ca5135588ce24e\"), 4)0af7ba66f9a27ed0e229221aada0cc88d5d6fd58f46f72eb626bd37b8e94efc87d3c95f98bd2b66af7c1d3a16cad13e01562539e02afc9695b86a5416092645f140fc148a380d69b8753d296355d450a4c606dfa652482747ab694cd6ac23972"
        :> <<6, 10, 1, 15, 14, 8, 13, 4, 4, 1, 11, 5, 12, 2, 7, 6, 1, 3, 1, 10, 2, 2, 8, 3, 15, 0, 15, 1, 9, 10, 1, 15, 11, 10, 10, 15, 13, 14, 0, 3, 13, 2, 7, 10, 12, 6, 11, 6, 10, 12, 10, 10, 6, 3, 5, 0, 9, 4, 6, 4, 12, 13, 8, 4>>)))))
    @@
    (((("(Some(\"6164e20ac3de15cbe6873d15338ae39392784d729dee7a4530ca5135588ce24e\"), 4)0af7ba66f9a27ed0e229221aada0cc88d5d6fd58f46f72eb626bd37b8e94efc87d3c95f98bd2b66af7c1d3a16cad13e01562539e02afc9695b86a5416092645f7d3c95f98bd2b66af7c1d3a16cad13e01562539e02afc9695b86a5416092645f"
        :> <<1, 9, 3, 11, 2, 10, 12, 13, 15, 3, 13, 1, 14, 15, 1, 7, 8, 1, 11, 3, 15, 5, 5, 15, 1, 6, 2, 7, 2, 6, 10, 0, 2, 14, 5, 12, 1, 5, 5, 11, 5, 0, 13, 8, 12, 3, 12, 10, 5, 14, 4, 14, 8, 4, 3, 12, 10, 5, 11, 9, 1, 8, 12, 15>>)
    @@
    (("(Some(\"6164e20ac3de15cbe6873d15338ae39392784d729dee7a4530ca5135588ce24e\"), 4)0f953d12a939fe4ef354fff77564841627136a6bf3667b256c4a5cb6768788da"
        :> <<8, 12, 2, 13, 12, 6, 15, 8, 12, 5, 10, 8, 9, 9, 4, 0, 0, 5, 9, 5, 4, 11, 4, 2, 9, 0, 4, 5, 11, 10, 6, 3, 1, 11, 7, 1, 5, 13, 8, 14, 7, 14, 5, 0, 5, 4, 8, 4, 13, 3, 12, 1, 4, 6, 14, 11, 0, 15, 12, 10, 13, 4, 13, 13>>)
    @@
    ("(Some(\"6164e20ac3de15cbe6873d15338ae39392784d729dee7a4530ca5135588ce24e\"), 4)0f953d12a939fe4ef354fff77564841627136a6bf3667b256c4a5cb6768788da0af7ba66f9a27ed0e229221aada0cc88d5d6fd58f46f72eb626bd37b8e94efc8"
        :> <<14, 15, 14, 4, 6, 0, 2, 2, 0, 1, 10, 5, 13, 5, 5, 2, 15, 4, 8, 10, 8, 0, 10, 11, 7, 8, 8, 2, 15, 0, 8, 9, 5, 0, 8, 5, 13, 2, 4, 13, 1, 8, 10, 2, 14, 5, 6, 13, 7, 4, 4, 7, 1, 12, 9, 4, 7, 7, 3, 8, 6, 1, 0, 10>>)))
    @@
    (("(Some(\"6164e20ac3de15cbe6873d15338ae39392784d729dee7a4530ca5135588ce24e\"), 4)0f953d12a939fe4ef354fff77564841627136a6bf3667b256c4a5cb6768788da0af7ba66f9a27ed0e229221aada0cc88d5d6fd58f46f72eb626bd37b8e94efc80af7ba66f9a27ed0e229221aada0cc88d5d6fd58f46f72eb626bd37b8e94efc8"
        :> <<13, 13, 10, 12, 10, 15, 11, 2, 10, 8, 6, 5, 6, 15, 13, 1, 12, 14, 15, 1, 7, 7, 8, 2, 1, 4, 1, 14, 5, 12, 11, 10, 11, 6, 7, 10, 0, 11, 10, 8, 5, 1, 5, 10, 7, 11, 3, 13, 14, 5, 6, 14, 4, 11, 3, 15, 5, 3, 15, 6, 2, 14, 7, 5>>)
    @@
    (("(Some(\"6164e20ac3de15cbe6873d15338ae39392784d729dee7a4530ca5135588ce24e\"), 4)0f953d12a939fe4ef354fff77564841627136a6bf3667b256c4a5cb6768788da0af7ba66f9a27ed0e229221aada0cc88d5d6fd58f46f72eb626bd37b8e94efc80f953d12a939fe4ef354fff77564841627136a6bf3667b256c4a5cb6768788da"
        :> <<1, 6, 0, 5, 1, 3, 9, 1, 8, 14, 7, 14, 11, 7, 5, 8, 10, 7, 8, 4, 3, 10, 7, 6, 6, 1, 2, 11, 12, 3, 12, 11, 3, 3, 3, 4, 11, 15, 14, 13, 1, 10, 8, 2, 3, 13, 0, 2, 0, 6, 12, 7, 4, 13, 12, 2, 6, 15, 0, 3, 12, 12, 14, 7>>)
    @@
    ("(Some(\"6164e20ac3de15cbe6873d15338ae39392784d729dee7a4530ca5135588ce24e\"), 4)0f953d12a939fe4ef354fff77564841627136a6bf3667b256c4a5cb6768788da0af7ba66f9a27ed0e229221aada0cc88d5d6fd58f46f72eb626bd37b8e94efc8140fc148a380d69b8753d296355d450a4c606dfa652482747ab694cd6ac23972"
        :> <<0, 9, 1, 14, 4, 10, 7, 9, 11, 4, 14, 7, 12, 8, 15, 15, 8, 6, 13, 4, 5, 14, 3, 3, 8, 14, 0, 0, 10, 1, 2, 2, 1, 0, 9, 5, 2, 7, 4, 2, 14, 3, 11, 7, 12, 0, 9, 8, 4, 6, 6, 1, 15, 4, 4, 0, 10, 1, 13, 9, 15, 3, 8, 4>>))))
    @@
    ((("(Some(\"6164e20ac3de15cbe6873d15338ae39392784d729dee7a4530ca5135588ce24e\"), 4)0f953d12a939fe4ef354fff77564841627136a6bf3667b256c4a5cb6768788da0af7ba66f9a27ed0e229221aada0cc88d5d6fd58f46f72eb626bd37b8e94efc87d3c95f98bd2b66af7c1d3a16cad13e01562539e02afc9695b86a5416092645f"
        :> <<11, 5, 11, 7, 7, 0, 10, 10, 7, 3, 5, 10, 13, 3, 11, 0, 13, 3, 5, 13, 0, 14, 4, 6, 15, 8, 14, 15, 15, 6, 12, 3, 13, 11, 7, 15, 6, 13, 9, 6, 2, 10, 2, 8, 7, 3, 4, 6, 1, 1, 5, 7, 12, 3, 8, 2, 5, 2, 12, 4, 9, 2, 10, 14>>)
    @@
    (("(Some(\"6164e20ac3de15cbe6873d15338ae39392784d729dee7a4530ca5135588ce24e\"), 4)0f953d12a939fe4ef354fff77564841627136a6bf3667b256c4a5cb6768788da0f953d12a939fe4ef354fff77564841627136a6bf3667b256c4a5cb6768788da"
        :> <<14, 14, 2, 3, 8, 0, 10, 4, 14, 10, 8, 9, 8, 4, 1, 0, 2, 10, 13, 14, 6, 15, 5, 5, 10, 9, 9, 7, 0, 1, 8, 4, 11, 7, 13, 0, 8, 13, 11, 10, 4, 10, 14, 0, 3, 4, 13, 1, 5, 10, 3, 11, 15, 4, 5, 0, 0, 8, 15, 11, 5, 3, 2, 0>>)
    @@
    ("(Some(\"6164e20ac3de15cbe6873d15338ae39392784d729dee7a4530ca5135588ce24e\"), 4)0f953d12a939fe4ef354fff77564841627136a6bf3667b256c4a5cb6768788da0f953d12a939fe4ef354fff77564841627136a6bf3667b256c4a5cb6768788da0af7ba66f9a27ed0e229221aada0cc88d5d6fd58f46f72eb626bd37b8e94efc8"
        :> <<5, 12, 4, 11, 7, 0, 0, 10, 4, 5, 11, 12, 8, 12, 6, 9, 2, 6, 13, 15, 13, 0, 3, 11, 7, 1, 7, 12, 5, 3, 14, 11, 15, 10, 0, 3, 11, 9, 14, 0, 6, 7, 15, 13, 15, 0, 8, 12, 15, 15, 10, 5, 12, 7, 8, 10, 2, 14, 12, 2, 6, 12, 6, 12>>)))
    @@
    ((("(Some(\"6164e20ac3de15cbe6873d15338ae39392784d729dee7a4530ca5135588ce24e\"), 4)0f953d12a939fe4ef354fff77564841627136a6bf3667b256c4a5cb6768788da0f953d12a939fe4ef354fff77564841627136a6bf3667b256c4a5cb6768788da0f953d12a939fe4ef354fff77564841627136a6bf3667b256c4a5cb6768788da"
        :> <<12, 9, 0, 2, 14, 11, 9, 12, 4, 6, 10, 1, 14, 15, 10, 11, 15, 3, 5, 15, 4, 2, 7, 10, 4, 3, 3, 1, 10, 5, 5, 2, 1, 3, 13, 5, 10, 5, 1, 3, 4, 11, 0, 15, 7, 7, 1, 11, 7, 5, 7, 2, 9, 12, 5, 1, 9, 4, 6, 12, 3, 10, 7, 13>>)
    @@
    ("(Some(\"6164e20ac3de15cbe6873d15338ae39392784d729dee7a4530ca5135588ce24e\"), 4)0f953d12a939fe4ef354fff77564841627136a6bf3667b256c4a5cb6768788da0f953d12a939fe4ef354fff77564841627136a6bf3667b256c4a5cb6768788da140fc148a380d69b8753d296355d450a4c606dfa652482747ab694cd6ac23972"
        :> <<4, 6, 7, 13, 8, 3, 9, 8, 14, 6, 3, 9, 14, 1, 15, 1, 13, 4, 9, 0, 15, 3, 4, 14, 10, 0, 12, 1, 6, 3, 5, 12, 1, 2, 8, 11, 13, 0, 11, 15, 12, 14, 2, 14, 13, 7, 9, 5, 3, 11, 14, 10, 5, 3, 1, 2, 3, 6, 7, 6, 10, 9, 6, 12>>))
    @@
    (("(Some(\"6164e20ac3de15cbe6873d15338ae39392784d729dee7a4530ca5135588ce24e\"), 4)0f953d12a939fe4ef354fff77564841627136a6bf3667b256c4a5cb6768788da0f953d12a939fe4ef354fff77564841627136a6bf3667b256c4a5cb6768788da7d3c95f98bd2b66af7c1d3a16cad13e01562539e02afc9695b86a5416092645f"
        :> <<0, 11, 5, 15, 14, 0, 6, 4, 10, 5, 7, 6, 14, 2, 8, 4, 2, 1, 1, 9, 8, 8, 13, 13, 14, 2, 15, 0, 7, 3, 0, 2, 11, 0, 5, 8, 2, 5, 11, 15, 0, 9, 12, 3, 7, 12, 10, 11, 13, 14, 0, 4, 15, 4, 5, 1, 4, 15, 14, 1, 9, 0, 7, 15>>)
    @@
    ("(Some(\"6164e20ac3de15cbe6873d15338ae39392784d729dee7a4530ca5135588ce24e\"), 4)0f953d12a939fe4ef354fff77564841627136a6bf3667b256c4a5cb6768788da140fc148a380d69b8753d296355d450a4c606dfa652482747ab694cd6ac23972"
        :> <<3, 7, 5, 3, 12, 13, 14, 13, 12, 3, 2, 8, 3, 0, 4, 9, 15, 0, 7, 10, 10, 7, 13, 7, 13, 5, 13, 14, 7, 14, 2, 11, 5, 10, 14, 9, 3, 14, 1, 14, 15, 7, 6, 0, 1, 11, 7, 9, 11, 14, 4, 5, 7, 5, 3, 14, 5, 11, 5, 14, 12, 4, 9, 15>>))))))
    @@
    ((((("(Some(\"6164e20ac3de15cbe6873d15338ae39392784d729dee7a4530ca5135588ce24e\"), 4)0f953d12a939fe4ef354fff77564841627136a6bf3667b256c4a5cb6768788da140fc148a380d69b8753d296355d450a4c606dfa652482747ab694cd6ac239720af7ba66f9a27ed0e229221aada0cc88d5d6fd58f46f72eb626bd37b8e94efc8"
        :> <<5, 10, 3, 6, 15, 6, 3, 12, 12, 3, 12, 10, 2, 13, 0, 4, 9, 2, 0, 1, 6, 11, 10, 7, 4, 1, 0, 7, 1, 15, 2, 10, 5, 3, 13, 15, 3, 4, 0, 14, 15, 5, 5, 0, 11, 8, 15, 14, 7, 1, 12, 12, 5, 13, 14, 7, 2, 8, 9, 8, 6, 9, 2, 13>>)
    @@
    (("(Some(\"6164e20ac3de15cbe6873d15338ae39392784d729dee7a4530ca5135588ce24e\"), 4)0f953d12a939fe4ef354fff77564841627136a6bf3667b256c4a5cb6768788da140fc148a380d69b8753d296355d450a4c606dfa652482747ab694cd6ac239720f953d12a939fe4ef354fff77564841627136a6bf3667b256c4a5cb6768788da"
        :> <<0, 10, 9, 1, 11, 13, 15, 3, 5, 15, 0, 4, 12, 11, 6, 8, 13, 0, 6, 10, 15, 7, 6, 10, 1, 1, 7, 5, 6, 13, 15, 15, 12, 8, 0, 1, 2, 5, 7, 15, 4, 13, 9, 5, 4, 9, 11, 6, 10, 9, 0, 7, 14, 15, 5, 8, 15, 12, 13, 14, 15, 8, 12, 9>>)
    @@
    ("(Some(\"6164e20ac3de15cbe6873d15338ae39392784d729dee7a4530ca5135588ce24e\"), 4)0f953d12a939fe4ef354fff77564841627136a6bf3667b256c4a5cb6768788da140fc148a380d69b8753d296355d450a4c606dfa652482747ab694cd6ac23972140fc148a380d69b8753d296355d450a4c606dfa652482747ab694cd6ac23972"
        :> <<14, 10, 3, 7, 10, 10, 5, 5, 13, 14, 3, 11, 9, 6, 5, 4, 9, 12, 0, 7, 5, 1, 2, 0, 13, 7, 3, 9, 2, 11, 14, 11, 7, 13, 4, 13, 14, 15, 11, 0, 9, 10, 8, 3, 3, 15, 12, 3, 1, 6, 15, 5, 2, 5, 5, 9, 9, 2, 13, 12, 5, 0, 6, 0>>)))
    @@
    (("(Some(\"6164e20ac3de15cbe6873d15338ae39392784d729dee7a4530ca5135588ce24e\"), 4)0f953d12a939fe4ef354fff77564841627136a6bf3667b256c4a5cb6768788da140fc148a380d69b8753d296355d450a4c606dfa652482747ab694cd6ac239727d3c95f98bd2b66af7c1d3a16cad13e01562539e02afc9695b86a5416092645f"
        :> <<14, 13, 13, 5, 3, 8, 8, 12, 10, 6, 13, 6, 10, 5, 12, 6, 13, 0, 10, 14, 3, 12, 5, 11, 10, 11, 4, 15, 2, 13, 9, 3, 0, 2, 15, 14, 6, 13, 10, 2, 5, 1, 8, 11, 9, 13, 5, 5, 8, 8, 2, 12, 3, 13, 11, 13, 3, 14, 10, 9, 6, 11, 13, 1>>)
    @@
    (("(Some(\"6164e20ac3de15cbe6873d15338ae39392784d729dee7a4530ca5135588ce24e\"), 4)0f953d12a939fe4ef354fff77564841627136a6bf3667b256c4a5cb6768788da7d3c95f98bd2b66af7c1d3a16cad13e01562539e02afc9695b86a5416092645f"
        :> <<5, 4, 12, 15, 3, 7, 10, 13, 13, 2, 5, 5, 7, 9, 14, 8, 14, 2, 15, 8, 1, 11, 9, 7, 4, 7, 1, 6, 8, 5, 15, 5, 5, 0, 6, 1, 3, 3, 15, 0, 15, 5, 15, 9, 1, 11, 8, 4, 12, 0, 7, 5, 3, 14, 9, 14, 14, 1, 1, 7, 15, 1, 12, 8>>)
    @@
    ("(Some(\"6164e20ac3de15cbe6873d15338ae39392784d729dee7a4530ca5135588ce24e\"), 4)0f953d12a939fe4ef354fff77564841627136a6bf3667b256c4a5cb6768788da7d3c95f98bd2b66af7c1d3a16cad13e01562539e02afc9695b86a5416092645f0af7ba66f9a27ed0e229221aada0cc88d5d6fd58f46f72eb626bd37b8e94efc8"
        :> <<12, 3, 15, 1, 15, 15, 5, 2, 1, 10, 1, 8, 5, 4, 2, 1, 8, 0, 8, 10, 14, 11, 15, 12, 14, 13, 1, 5, 0, 3, 3, 14, 11, 3, 12, 0, 13, 1, 11, 4, 9, 6, 5, 7, 2, 11, 9, 3, 1, 1, 3, 13, 9, 7, 12, 9, 2, 13, 0, 10, 14, 11, 1, 7>>))))
    @@
    ((("(Some(\"6164e20ac3de15cbe6873d15338ae39392784d729dee7a4530ca5135588ce24e\"), 4)0f953d12a939fe4ef354fff77564841627136a6bf3667b256c4a5cb6768788da7d3c95f98bd2b66af7c1d3a16cad13e01562539e02afc9695b86a5416092645f0f953d12a939fe4ef354fff77564841627136a6bf3667b256c4a5cb6768788da"
        :> <<0, 14, 10, 9, 4, 14, 1, 2, 12, 13, 3, 11, 15, 15, 3, 4, 1, 10, 12, 15, 10, 1, 13, 5, 1, 1, 13, 6, 15, 2, 3, 3, 12, 3, 8, 2, 6, 6, 7, 8, 12, 3, 5, 2, 4, 3, 0, 7, 8, 7, 1, 8, 15, 1, 13, 0, 6, 12, 11, 9, 11, 15, 5, 2>>)
    @@
    (("(Some(\"6164e20ac3de15cbe6873d15338ae39392784d729dee7a4530ca5135588ce24e\"), 4)0f953d12a939fe4ef354fff77564841627136a6bf3667b256c4a5cb6768788da7d3c95f98bd2b66af7c1d3a16cad13e01562539e02afc9695b86a5416092645f140fc148a380d69b8753d296355d450a4c606dfa652482747ab694cd6ac23972"
        :> <<14, 8, 10, 5, 10, 13, 5, 1, 4, 6, 6, 7, 9, 2, 7, 6, 9, 1, 2, 4, 8, 7, 6, 13, 9, 6, 7, 15, 0, 2, 10, 5, 9, 7, 9, 1, 2, 7, 8, 0, 2, 1, 10, 15, 2, 15, 7, 7, 9, 4, 15, 4, 7, 15, 5, 6, 13, 8, 13, 9, 3, 6, 12, 15>>)
    @@
    ("(Some(\"6164e20ac3de15cbe6873d15338ae39392784d729dee7a4530ca5135588ce24e\"), 4)0f953d12a939fe4ef354fff77564841627136a6bf3667b256c4a5cb6768788da7d3c95f98bd2b66af7c1d3a16cad13e01562539e02afc9695b86a5416092645f7d3c95f98bd2b66af7c1d3a16cad13e01562539e02afc9695b86a5416092645f"
        :> <<4, 4, 9, 2, 15, 3, 0, 13, 9, 7, 10, 8, 6, 7, 13, 4, 7, 10, 4, 8, 1, 14, 6, 8, 2, 0, 8, 10, 9, 8, 1, 12, 13, 14, 13, 1, 9, 0, 6, 2, 11, 13, 2, 8, 8, 0, 5, 3, 12, 13, 11, 12, 12, 10, 6, 15, 9, 7, 10, 1, 2, 10, 0, 0>>)))
    @@
    ((("(Some(\"6164e20ac3de15cbe6873d15338ae39392784d729dee7a4530ca5135588ce24e\"), 4)140fc148a380d69b8753d296355d450a4c606dfa652482747ab694cd6ac23972"
        :> <<7, 12, 14, 11, 2, 5, 6, 14, 8, 2, 3, 2, 9, 9, 7, 5, 3, 0, 7, 8, 6, 13, 10, 12, 2, 7, 13, 3, 11, 0, 10, 7, 0, 2, 2, 7, 0, 0, 1, 2, 11, 3, 2, 10, 8, 3, 5, 15, 11, 15, 4, 12, 4, 8, 15, 6, 1, 3, 14, 11, 7, 8, 9, 11>>)
    @@
    ("(Some(\"6164e20ac3de15cbe6873d15338ae39392784d729dee7a4530ca5135588ce24e\"), 4)140fc148a380d69b8753d296355d450a4c606dfa652482747ab694cd6ac239720af7ba66f9a27ed0e229221aada0cc88d5d6fd58f46f72eb626bd37b8e94efc8"
        :> <<11, 9, 12, 8, 9, 8, 1, 14, 12, 3, 15, 1, 5, 6, 14, 4, 1, 9, 15, 0, 1, 12, 9, 11, 5, 0, 5, 6, 6, 15, 5, 8, 0, 14, 1, 4, 14, 2, 15, 13, 2, 8, 0, 1, 4, 11, 0, 13, 15, 7, 9, 0, 5, 1, 14, 15, 15, 15, 9, 9, 10, 12, 0, 12>>))
    @@
    (("(Some(\"6164e20ac3de15cbe6873d15338ae39392784d729dee7a4530ca5135588ce24e\"), 4)140fc148a380d69b8753d296355d450a4c606dfa652482747ab694cd6ac239720af7ba66f9a27ed0e229221aada0cc88d5d6fd58f46f72eb626bd37b8e94efc80af7ba66f9a27ed0e229221aada0cc88d5d6fd58f46f72eb626bd37b8e94efc8"
        :> <<0, 8, 5, 12, 15, 7, 14, 7, 14, 6, 5, 11, 7, 4, 9, 1, 1, 4, 14, 14, 5, 15, 10, 13, 1, 8, 14, 3, 1, 7, 9, 8, 4, 11, 14, 13, 10, 2, 1, 6, 2, 13, 0, 7, 2, 2, 11, 12, 5, 11, 5, 0, 12, 9, 10, 2, 4, 2, 8, 8, 4, 13, 13, 3>>)
    @@
    ("(Some(\"6164e20ac3de15cbe6873d15338ae39392784d729dee7a4530ca5135588ce24e\"), 4)140fc148a380d69b8753d296355d450a4c606dfa652482747ab694cd6ac239720af7ba66f9a27ed0e229221aada0cc88d5d6fd58f46f72eb626bd37b8e94efc80f953d12a939fe4ef354fff77564841627136a6bf3667b256c4a5cb6768788da"
        :> <<7, 12, 1, 15, 7, 15, 0, 5, 0, 1, 6, 6, 3, 8, 4, 3, 2, 9, 6, 0, 1, 11, 12, 0, 4, 8, 3, 13, 8, 1, 0, 7, 14, 12, 3, 15, 2, 2, 0, 9, 7, 5, 14, 14, 11, 10, 15, 2, 13, 6, 15, 0, 5, 11, 13, 12, 6, 7, 2, 8, 2, 8, 9, 11>>)))))
    @@
    (((("(Some(\"6164e20ac3de15cbe6873d15338ae39392784d729dee7a4530ca5135588ce24e\"), 4)140fc148a380d69b8753d296355d450a4c606dfa652482747ab694cd6ac239720af7ba66f9a27ed0e229221aada0cc88d5d6fd58f46f72eb626bd37b8e94efc8140fc148a380d69b8753d296355d450a4c606dfa652482747ab694cd6ac23972"
        :> <<3, 5, 8, 12, 12, 4, 6, 1, 14, 12, 3, 1, 5, 11, 14, 12, 1, 12, 8, 7, 11, 7, 14, 7, 2, 11, 15, 15, 2, 1, 11, 11, 13, 7, 6, 4, 2, 11, 10, 7, 11, 4, 13, 4, 10, 8, 6, 1, 13, 14, 1, 3, 1, 3, 9, 13, 1, 14, 14, 2, 9, 9, 14, 15>>)
    @@
    (("(Some(\"6164e20ac3de15cbe6873d15338ae39392784d729dee7a4530ca5135588ce24e\"), 4)140fc148a380d69b8753d296355d450a4c606dfa652482747ab694cd6ac239720af7ba66f9a27ed0e229221aada0cc88d5d6fd58f46f72eb626bd37b8e94efc87d3c95f98bd2b66af7c1d3a16cad13e01562539e02afc9695b86a5416092645f"
        :> <<10, 3, 13, 4, 15, 10, 2, 6, 11, 7, 7, 2, 12, 2, 11, 15, 5, 14, 13, 8, 13, 2, 4, 12, 4, 9, 11, 15, 12, 10, 14, 10, 2, 6, 3, 6, 1, 11, 14, 11, 15, 1, 0, 10, 14, 8, 12, 15, 9, 10, 8, 11, 3, 5, 6, 1, 5, 3, 5, 12, 13, 7, 11, 6>>)
    @@
    ("(Some(\"6164e20ac3de15cbe6873d15338ae39392784d729dee7a4530ca5135588ce24e\"), 4)140fc148a380d69b8753d296355d450a4c606dfa652482747ab694cd6ac239720f953d12a939fe4ef354fff77564841627136a6bf3667b256c4a5cb6768788da"
        :> <<2, 10, 13, 0, 10, 4, 11, 6, 15, 0, 6, 1, 8, 0, 14, 5, 3, 5, 12, 9, 11, 15, 11, 12, 0, 6, 7, 9, 13, 2, 1, 10, 14, 3, 11, 12, 4, 15, 2, 11, 6, 5, 6, 6, 15, 9, 15, 7, 1, 15, 2, 10, 5, 12, 4, 12, 6, 14, 14, 6, 5, 3, 11, 12>>)))
    @@
    ((("(Some(\"6164e20ac3de15cbe6873d15338ae39392784d729dee7a4530ca5135588ce24e\"), 4)140fc148a380d69b8753d296355d450a4c606dfa652482747ab694cd6ac239720f953d12a939fe4ef354fff77564841627136a6bf3667b256c4a5cb6768788da0af7ba66f9a27ed0e229221aada0cc88d5d6fd58f46f72eb626bd37b8e94efc8"
        :> <<0, 0, 6, 10, 4, 8, 13, 5, 11, 11, 2, 6, 15, 12, 12, 14, 10, 13, 12, 9, 15, 3, 4, 12, 0, 13, 12, 3, 9, 3, 7, 7, 11, 6, 12, 14, 6, 2, 3, 12, 2, 4, 13, 13, 1, 5, 2, 11, 2, 12, 14, 0, 1, 5, 5, 3, 5, 4, 8, 12, 12, 1, 3, 4>>)
    @@
    ("(Some(\"6164e20ac3de15cbe6873d15338ae39392784d729dee7a4530ca5135588ce24e\"), 4)140fc148a380d69b8753d296355d450a4c606dfa652482747ab694cd6ac239720f953d12a939fe4ef354fff77564841627136a6bf3667b256c4a5cb6768788da0f953d12a939fe4ef354fff77564841627136a6bf3667b256c4a5cb6768788da"
        :> <<5, 3, 2, 1, 3, 11, 12, 10, 3, 8, 8, 8, 2, 5, 15, 10, 2, 1, 14, 9, 9, 2, 8, 14, 6, 8, 1, 15, 9, 12, 5, 2, 6, 5, 5, 5, 14, 2, 6, 13, 3, 6, 6, 8, 10, 9, 1, 0, 3, 15, 13, 3, 8, 14, 14, 3, 14, 3, 0, 0, 1, 15, 8, 8>>))
    @@
    (("(Some(\"6164e20ac3de15cbe6873d15338ae39392784d729dee7a4530ca5135588ce24e\"), 4)140fc148a380d69b8753d296355d450a4c606dfa652482747ab694cd6ac239720f953d12a939fe4ef354fff77564841627136a6bf3667b256c4a5cb6768788da140fc148a380d69b8753d296355d450a4c606dfa652482747ab694cd6ac23972"
        :> <<1, 10, 5, 5, 2, 15, 8, 2, 9, 11, 13, 3, 6, 2, 10, 7, 9, 15, 8, 0, 3, 0, 4, 15, 13, 14, 14, 11, 6, 12, 13, 14, 7, 1, 13, 7, 8, 1, 9, 2, 4, 12, 2, 5, 7, 1, 12, 8, 0, 0, 6, 15, 12, 7, 14, 1, 4, 12, 12, 14, 9, 6, 12, 8>>)
    @@
    ("(Some(\"6164e20ac3de15cbe6873d15338ae39392784d729dee7a4530ca5135588ce24e\"), 4)140fc148a380d69b8753d296355d450a4c606dfa652482747ab694cd6ac239720f953d12a939fe4ef354fff77564841627136a6bf3667b256c4a5cb6768788da7d3c95f98bd2b66af7c1d3a16cad13e01562539e02afc9695b86a5416092645f"
        :> <<13, 11, 4, 0, 1, 14, 1, 11, 9, 11, 6, 15, 13, 7, 7, 0, 0, 3, 11, 14, 9, 10, 8, 15, 8, 1, 13, 1, 1, 2, 1, 13, 12, 3, 14, 4, 5, 10, 2, 4, 9, 5, 9, 9, 4, 1, 10, 5, 5, 13, 6, 10, 4, 14, 14, 10, 10, 14, 8, 10, 13, 7, 11, 13>>))))
    @@
    ((("(Some(\"6164e20ac3de15cbe6873d15338ae39392784d729dee7a4530ca5135588ce24e\"), 4)140fc148a380d69b8753d296355d450a4c606dfa652482747ab694cd6ac23972140fc148a380d69b8753d296355d450a4c606dfa652482747ab694cd6ac23972"
        :> <<11, 3, 15, 4, 9, 2, 3, 0, 14, 1, 11, 4, 15, 10, 8, 6, 12, 4, 1, 14, 3, 9, 4, 1, 11, 4, 15, 10, 0, 13, 11, 9, 6, 8, 4, 2, 15, 5, 6, 15, 7, 10, 6, 15, 10, 3, 7, 8, 14, 10, 14, 15, 0, 10, 14, 7, 14, 1, 14, 2, 4, 5, 10, 7>>)
    @@
    (("(Some(\"6164e20ac3de15cbe6873d15338ae39392784d729dee7a4530ca5135588ce24e\"), 4)140fc148a380d69b8753d296355d450a4c606dfa652482747ab694cd6ac23972140fc148a380d69b8753d296355d450a4c606dfa652482747ab694cd6ac239720af7ba66f9a27ed0e229221aada0cc88d5d6fd58f46f72eb626bd37b8e94efc8"
        :> <<10, 2, 1, 2, 12, 6, 7, 12, 8, 5, 0, 4, 6, 11, 11, 11, 3, 10, 5, 11, 9, 6, 11, 11, 4, 14, 13, 11, 2, 12, 8, 5, 2, 7, 13, 15, 15, 0, 1, 0, 4, 2, 7, 2, 2, 2, 10, 13, 9, 12, 9, 7, 15, 13, 2, 6, 7, 3, 15, 8, 9, 0, 8, 3>>)
    @@
    ("(Some(\"6164e20ac3de15cbe6873d15338ae39392784d729dee7a4530ca5135588ce24e\"), 4)140fc148a380d69b8753d296355d450a4c606dfa652482747ab694cd6ac23972140fc148a380d69b8753d296355d450a4c606dfa652482747ab694cd6ac239720f953d12a939fe4ef354fff77564841627136a6bf3667b256c4a5cb6768788da"
        :> <<9, 15, 5, 7, 1, 2, 1, 15, 4, 7, 8, 15, 2, 7, 2, 14, 8, 5, 5, 14, 7, 15, 7, 15, 3, 0, 2, 6, 0, 6, 15, 14, 11, 8, 0, 3, 2, 11, 2, 8, 8, 6, 8, 13, 10, 9, 9, 9, 14, 10, 14, 14, 7, 6, 13, 6, 8, 14, 10, 6, 6, 4, 0, 10>>)))
    @@
    ((("(Some(\"6164e20ac3de15cbe6873d15338ae39392784d729dee7a4530ca5135588ce24e\"), 4)140fc148a380d69b8753d296355d450a4c606dfa652482747ab694cd6ac23972140fc148a380d69b8753d296355d450a4c606dfa652482747ab694cd6ac23972140fc148a380d69b8753d296355d450a4c606dfa652482747ab694cd6ac23972"
        :> <<15, 12, 14, 11, 13, 10, 1, 10, 3, 1, 13, 6, 14, 3, 8, 6, 9, 15, 3, 8, 4, 2, 2, 1, 5, 2, 11, 14, 3, 1, 13, 4, 3, 8, 1, 9, 1, 5, 5, 8, 13, 4, 7, 4, 10, 10, 8, 10, 11, 11, 2, 14, 14, 5, 12, 4, 5, 10, 0, 14, 6, 13, 11, 6>>)
    @@
    ("(Some(\"6164e20ac3de15cbe6873d15338ae39392784d729dee7a4530ca5135588ce24e\"), 4)140fc148a380d69b8753d296355d450a4c606dfa652482747ab694cd6ac23972140fc148a380d69b8753d296355d450a4c606dfa652482747ab694cd6ac239727d3c95f98bd2b66af7c1d3a16cad13e01562539e02afc9695b86a5416092645f"
        :> <<13, 10, 0, 6, 6, 0, 5, 9, 3, 6, 6, 15, 9, 0, 2, 15, 5, 1, 8, 5, 3, 4, 8, 5, 7, 8, 4, 4, 1, 1, 3, 0, 1, 0, 4, 12, 14, 10, 1, 9, 4, 8, 9, 10, 9, 15, 15, 6, 9, 5, 13, 10, 2, 15, 10, 10, 14, 6, 1, 10, 0, 14, 5, 3>>))
    @@
    (("(Some(\"6164e20ac3de15cbe6873d15338ae39392784d729dee7a4530ca5135588ce24e\"), 4)140fc148a380d69b8753d296355d450a4c606dfa652482747ab694cd6ac239727d3c95f98bd2b66af7c1d3a16cad13e01562539e02afc9695b86a5416092645f"
        :> <<11, 8, 8, 9, 3, 15, 5, 4, 0, 9, 11, 6, 6, 10, 9, 13, 0, 5, 12, 4, 6, 12, 3, 15, 13, 7, 14, 11, 9, 12, 10, 9, 5, 6, 14, 12, 11, 0, 1, 4, 11, 12, 15, 1, 5, 5, 3, 1, 12, 2, 10, 13, 3, 13, 0, 10, 0, 6, 4, 13, 8, 15, 14, 2>>)
    @@
    ("(Some(\"6164e20ac3de15cbe6873d15338ae39392784d729dee7a4530ca5135588ce24e\"), 4)140fc148a380d69b8753d296355d450a4c606dfa652482747ab694cd6ac239727d3c95f98bd2b66af7c1d3a16cad13e01562539e02afc9695b86a5416092645f0af7ba66f9a27ed0e229221aada0cc88d5d6fd58f46f72eb626bd37b8e94efc8"
        :> <<7, 1, 15, 12, 3, 12, 10, 8, 10, 7, 15, 15, 6, 14, 7, 12, 14, 8, 8, 12, 12, 3, 0, 9, 14, 2, 8, 1, 6, 3, 0, 0, 8, 6, 0, 2, 10, 12, 8, 4, 8, 7, 1, 6, 14, 15, 6, 9, 6, 0, 8, 12, 9, 4, 1, 5, 1, 12, 5, 12, 0, 0, 2, 3>>))))))))))
    @@
    ((((((((("(Some(\"6164e20ac3de15cbe6873d15338ae39392784d729dee7a4530ca5135588ce24e\"), 4)140fc148a380d69b8753d296355d450a4c606dfa652482747ab694cd6ac239727d3c95f98bd2b66af7c1d3a16cad13e01562539e02afc9695b86a5416092645f0f953d12a939fe4ef354fff77564841627136a6bf3667b256c4a5cb6768788da"
        :> <<4, 7, 15, 0, 4, 0, 3, 13, 9, 14, 15, 11, 0, 12, 8, 11, 15, 12, 4, 12, 10, 3, 2, 4, 11, 3, 5, 12, 10, 8, 1, 0, 12, 11, 10, 6, 9, 0, 12, 3, 11, 8, 9, 7, 8, 3, 8, 9, 12, 12, 12, 0, 7, 6, 3, 6, 1, 8, 11, 2, 1, 8, 11, 9>>)
    @@
    (("(Some(\"6164e20ac3de15cbe6873d15338ae39392784d729dee7a4530ca5135588ce24e\"), 4)140fc148a380d69b8753d296355d450a4c606dfa652482747ab694cd6ac239727d3c95f98bd2b66af7c1d3a16cad13e01562539e02afc9695b86a5416092645f140fc148a380d69b8753d296355d450a4c606dfa652482747ab694cd6ac23972"
        :> <<0, 1, 0, 12, 3, 2, 14, 15, 4, 6, 13, 10, 11, 1, 13, 11, 12, 2, 10, 5, 12, 2, 11, 11, 5, 15, 4, 14, 6, 11, 5, 8, 1, 4, 15, 12, 7, 5, 6, 1, 15, 2, 5, 1, 1, 10, 2, 3, 8, 12, 9, 14, 3, 9, 9, 15, 9, 8, 11, 1, 1, 3, 12, 9>>)
    @@
    ("(Some(\"6164e20ac3de15cbe6873d15338ae39392784d729dee7a4530ca5135588ce24e\"), 4)140fc148a380d69b8753d296355d450a4c606dfa652482747ab694cd6ac239727d3c95f98bd2b66af7c1d3a16cad13e01562539e02afc9695b86a5416092645f7d3c95f98bd2b66af7c1d3a16cad13e01562539e02afc9695b86a5416092645f"
        :> <<14, 4, 15, 1, 6, 4, 15, 8, 13, 4, 15, 6, 5, 4, 4, 3, 7, 4, 15, 12, 1, 5, 3, 7, 6, 7, 2, 6, 7, 9, 3, 1, 14, 10, 13, 9, 3, 14, 7, 1, 3, 5, 11, 12, 0, 3, 9, 0, 4, 4, 14, 11, 8, 9, 15, 12, 3, 6, 15, 15, 1, 2, 0, 1>>)))
    @@
    (("(Some(\"6164e20ac3de15cbe6873d15338ae39392784d729dee7a4530ca5135588ce24e\"), 4)7d3c95f98bd2b66af7c1d3a16cad13e01562539e02afc9695b86a5416092645f"
        :> <<5, 5, 15, 0, 7, 0, 5, 0, 15, 15, 13, 8, 11, 6, 14, 0, 3, 12, 5, 2, 8, 12, 14, 5, 11, 6, 12, 9, 6, 9, 11, 11, 14, 12, 3, 7, 8, 2, 13, 6, 6, 12, 12, 8, 12, 0, 12, 12, 15, 0, 10, 13, 4, 7, 3, 13, 12, 7, 13, 5, 12, 1, 13, 1>>)
    @@
    (("(Some(\"6164e20ac3de15cbe6873d15338ae39392784d729dee7a4530ca5135588ce24e\"), 4)7d3c95f98bd2b66af7c1d3a16cad13e01562539e02afc9695b86a5416092645f0af7ba66f9a27ed0e229221aada0cc88d5d6fd58f46f72eb626bd37b8e94efc8"
        :> <<0, 15, 14, 6, 10, 3, 3, 1, 15, 11, 3, 10, 8, 6, 14, 11, 0, 13, 7, 13, 10, 9, 1, 6, 3, 10, 3, 2, 7, 11, 12, 11, 5, 1, 7, 4, 12, 12, 2, 1, 10, 2, 2, 2, 7, 9, 11, 2, 6, 15, 1, 10, 15, 4, 1, 0, 2, 2, 2, 7, 9, 4, 4, 12>>)
    @@
    ("(Some(\"6164e20ac3de15cbe6873d15338ae39392784d729dee7a4530ca5135588ce24e\"), 4)7d3c95f98bd2b66af7c1d3a16cad13e01562539e02afc9695b86a5416092645f0af7ba66f9a27ed0e229221aada0cc88d5d6fd58f46f72eb626bd37b8e94efc80af7ba66f9a27ed0e229221aada0cc88d5d6fd58f46f72eb626bd37b8e94efc8"
        :> <<0, 12, 10, 6, 3, 10, 13, 8, 6, 2, 12, 3, 7, 4, 4, 14, 13, 6, 8, 5, 3, 14, 11, 9, 11, 12, 8, 2, 0, 15, 4, 13, 5, 7, 4, 12, 12, 12, 12, 10, 4, 10, 2, 12, 2, 11, 4, 15, 6, 3, 12, 9, 0, 3, 9, 7, 15, 5, 12, 12, 1, 11, 2, 15>>))))
    @@
    ((("(Some(\"6164e20ac3de15cbe6873d15338ae39392784d729dee7a4530ca5135588ce24e\"), 4)7d3c95f98bd2b66af7c1d3a16cad13e01562539e02afc9695b86a5416092645f0af7ba66f9a27ed0e229221aada0cc88d5d6fd58f46f72eb626bd37b8e94efc80f953d12a939fe4ef354fff77564841627136a6bf3667b256c4a5cb6768788da"
        :> <<10, 2, 14, 0, 5, 6, 15, 8, 1, 3, 3, 0, 6, 12, 15, 12, 13, 0, 9, 10, 1, 10, 3, 15, 13, 10, 8, 5, 0, 5, 0, 8, 2, 0, 0, 13, 12, 2, 12, 11, 9, 10, 0, 4, 1, 9, 0, 8, 15, 14, 13, 0, 2, 1, 7, 3, 2, 7, 10, 5, 3, 4, 10, 1>>)
    @@
    (("(Some(\"6164e20ac3de15cbe6873d15338ae39392784d729dee7a4530ca5135588ce24e\"), 4)7d3c95f98bd2b66af7c1d3a16cad13e01562539e02afc9695b86a5416092645f0af7ba66f9a27ed0e229221aada0cc88d5d6fd58f46f72eb626bd37b8e94efc8140fc148a380d69b8753d296355d450a4c606dfa652482747ab694cd6ac23972"
        :> <<12, 15, 4, 15, 4, 5, 10, 10, 3, 7, 5, 14, 13, 7, 0, 2, 9, 15, 6, 13, 14, 0, 8, 11, 8, 10, 10, 12, 3, 4, 0, 10, 4, 13, 2, 1, 12, 11, 15, 4, 9, 12, 9, 11, 14, 8, 12, 10, 5, 8, 4, 6, 8, 7, 3, 11, 14, 1, 7, 4, 10, 4, 5, 10>>)
    @@
    ("(Some(\"6164e20ac3de15cbe6873d15338ae39392784d729dee7a4530ca5135588ce24e\"), 4)7d3c95f98bd2b66af7c1d3a16cad13e01562539e02afc9695b86a5416092645f0af7ba66f9a27ed0e229221aada0cc88d5d6fd58f46f72eb626bd37b8e94efc87d3c95f98bd2b66af7c1d3a16cad13e01562539e02afc9695b86a5416092645f"
        :> <<1, 8, 5, 5, 15, 4, 4, 13, 9, 2, 12, 11, 13, 13, 12, 9, 13, 3, 3, 12, 4, 4, 1, 9, 9, 6, 10, 5, 11, 15, 13, 6, 4, 3, 11, 10, 3, 6, 2, 11, 6, 8, 1, 12, 11, 0, 3, 9, 7, 3, 6, 0, 10, 5, 1, 7, 1, 14, 7, 7, 7, 9, 13, 8>>)))
    @@
    ((("(Some(\"6164e20ac3de15cbe6873d15338ae39392784d729dee7a4530ca5135588ce24e\"), 4)7d3c95f98bd2b66af7c1d3a16cad13e01562539e02afc9695b86a5416092645f0f953d12a939fe4ef354fff77564841627136a6bf3667b256c4a5cb6768788da"
        :> <<10, 5, 12, 13, 8, 9, 12, 4, 8, 9, 12, 11, 12, 9, 0, 1, 15, 12, 4, 15, 3, 7, 10, 1, 10, 0, 11, 8, 8, 3, 13, 4, 4, 1, 11, 11, 6, 10, 12, 0, 13, 3, 1, 11, 1, 10, 11, 4, 15, 1, 10, 1, 8, 14, 15, 2, 15, 11, 8, 6, 3, 11, 9, 8>>)
    @@
    ("(Some(\"6164e20ac3de15cbe6873d15338ae39392784d729dee7a4530ca5135588ce24e\"), 4)7d3c95f98bd2b66af7c1d3a16cad13e01562539e02afc9695b86a5416092645f0f953d12a939fe4ef354fff77564841627136a6bf3667b256c4a5cb6768788da0af7ba66f9a27ed0e229221aada0cc88d5d6fd58f46f72eb626bd37b8e94efc8"
        :> <<3, 2, 7, 14, 15, 1, 2, 8, 5, 5, 1, 15, 2, 9, 5, 0, 10, 13, 12, 11, 8, 11, 1, 3, 4, 9, 0, 10, 8, 2, 0, 2, 3, 5, 6, 1, 15, 4, 15, 9, 10, 5, 8, 1, 11, 4, 2, 15, 10, 7, 7, 14, 3, 8, 14, 7, 10, 5, 5, 5, 5, 7, 7, 10>>))
    @@
    (("(Some(\"6164e20ac3de15cbe6873d15338ae39392784d729dee7a4530ca5135588ce24e\"), 4)7d3c95f98bd2b66af7c1d3a16cad13e01562539e02afc9695b86a5416092645f0f953d12a939fe4ef354fff77564841627136a6bf3667b256c4a5cb6768788da0f953d12a939fe4ef354fff77564841627136a6bf3667b256c4a5cb6768788da"
        :> <<14, 7, 9, 14, 3, 2, 14, 8, 8, 6, 8, 8, 5, 8, 7, 14, 8, 13, 11, 6, 10, 2, 4, 2, 0, 12, 0, 12, 2, 0, 14, 7, 5, 8, 7, 13, 2, 8, 5, 8, 10, 5, 6, 4, 10, 1, 3, 6, 9, 15, 11, 10, 2, 2, 10, 2, 3, 15, 8, 9, 11, 12, 14, 5>>)
    @@
    ("(Some(\"6164e20ac3de15cbe6873d15338ae39392784d729dee7a4530ca5135588ce24e\"), 4)7d3c95f98bd2b66af7c1d3a16cad13e01562539e02afc9695b86a5416092645f0f953d12a939fe4ef354fff77564841627136a6bf3667b256c4a5cb6768788da140fc148a380d69b8753d296355d450a4c606dfa652482747ab694cd6ac23972"
        :> <<6, 4, 3, 8, 12, 7, 3, 14, 13, 4, 8, 14, 0, 9, 9, 5, 3, 8, 1, 13, 0, 9, 0, 10, 5, 4, 11, 14, 1, 2, 3, 5, 4, 8, 8, 10, 13, 13, 12, 10, 0, 5, 15, 9, 5, 12, 12, 14, 3, 9, 5, 11, 3, 3, 14, 7, 0, 1, 0, 14, 14, 15, 7, 2>>)))))
    @@
    (((("(Some(\"6164e20ac3de15cbe6873d15338ae39392784d729dee7a4530ca5135588ce24e\"), 4)7d3c95f98bd2b66af7c1d3a16cad13e01562539e02afc9695b86a5416092645f0f953d12a939fe4ef354fff77564841627136a6bf3667b256c4a5cb6768788da7d3c95f98bd2b66af7c1d3a16cad13e01562539e02afc9695b86a5416092645f"
        :> <<7, 14, 3, 4, 15, 14, 14, 10, 6, 9, 14, 9, 1, 13, 5, 15, 6, 0, 3, 1, 7, 7, 2, 13, 0, 6, 11, 2, 7, 4, 3, 6, 0, 7, 15, 1, 2, 6, 8, 12, 11, 13, 14, 5, 0, 1, 0, 7, 13, 14, 13, 5, 4, 10, 10, 12, 8, 15, 0, 9, 5, 7, 7, 14>>)
    @@
    (("(Some(\"6164e20ac3de15cbe6873d15338ae39392784d729dee7a4530ca5135588ce24e\"), 4)7d3c95f98bd2b66af7c1d3a16cad13e01562539e02afc9695b86a5416092645f140fc148a380d69b8753d296355d450a4c606dfa652482747ab694cd6ac23972"
        :> <<8, 0, 14, 14, 14, 4, 2, 9, 0, 7, 4, 0, 1, 15, 14, 1, 10, 15, 8, 13, 11, 15, 1, 12, 7, 14, 9, 8, 12, 9, 12, 15, 13, 13, 3, 9, 6, 2, 3, 0, 13, 0, 11, 3, 4, 1, 7, 0, 15, 13, 13, 7, 0, 5, 14, 1, 0, 8, 0, 11, 10, 13, 9, 12>>)
    @@
    ("(Some(\"6164e20ac3de15cbe6873d15338ae39392784d729dee7a4530ca5135588ce24e\"), 4)7d3c95f98bd2b66af7c1d3a16cad13e01562539e02afc9695b86a5416092645f140fc148a380d69b8753d296355d450a4c606dfa652482747ab694cd6ac239720af7ba66f9a27ed0e229221aada0cc88d5d6fd58f46f72eb626bd37b8e94efc8"
        :> <<8, 6, 2, 7, 6, 9, 12, 7, 14, 6, 14, 8, 7, 15, 10, 13, 5, 14, 5, 3, 12, 4, 3, 13, 0, 15, 11, 7, 3, 13, 8, 12, 10, 13, 14, 15, 8, 8, 12, 3, 7, 8, 1, 11, 10, 11, 3, 7, 4, 1, 5, 0, 9, 0, 12, 6, 11, 0, 9, 9, 13, 13, 3, 15>>)))
    @@
    (("(Some(\"6164e20ac3de15cbe6873d15338ae39392784d729dee7a4530ca5135588ce24e\"), 4)7d3c95f98bd2b66af7c1d3a16cad13e01562539e02afc9695b86a5416092645f140fc148a380d69b8753d296355d450a4c606dfa652482747ab694cd6ac239720f953d12a939fe4ef354fff77564841627136a6bf3667b256c4a5cb6768788da"
        :> <<9, 11, 3, 14, 14, 2, 12, 8, 6, 1, 15, 4, 7, 10, 13, 12, 10, 1, 12, 6, 1, 8, 10, 14, 1, 3, 14, 7, 5, 8, 7, 6, 11, 5, 14, 15, 0, 13, 15, 7, 11, 10, 1, 15, 15, 10, 15, 13, 11, 0, 7, 9, 6, 15, 7, 0, 6, 10, 1, 5, 13, 4, 9, 0>>)
    @@
    (("(Some(\"6164e20ac3de15cbe6873d15338ae39392784d729dee7a4530ca5135588ce24e\"), 4)7d3c95f98bd2b66af7c1d3a16cad13e01562539e02afc9695b86a5416092645f140fc148a380d69b8753d296355d450a4c606dfa652482747ab694cd6ac23972140fc148a380d69b8753d296355d450a4c606dfa652482747ab694cd6ac23972"
        :> <<9, 15, 3, 7, 12, 15, 15, 2, 5, 12, 6, 6, 15, 7, 15, 2, 10, 10, 7, 4, 13, 3, 10, 12, 8, 7, 1, 2, 9, 6, 8, 3, 14, 5, 11, 9, 7, 12, 0, 7, 2, 2, 3, 5, 9, 15, 3, 9, 14, 10, 10, 10, 15, 8, 1, 10, 7, 12, 11, 0, 4, 12, 3, 0>>)
    @@
    ("(Some(\"6164e20ac3de15cbe6873d15338ae39392784d729dee7a4530ca5135588ce24e\"), 4)7d3c95f98bd2b66af7c1d3a16cad13e01562539e02afc9695b86a5416092645f140fc148a380d69b8753d296355d450a4c606dfa652482747ab694cd6ac239727d3c95f98bd2b66af7c1d3a16cad13e01562539e02afc9695b86a5416092645f"
        :> <<8, 13, 14, 11, 10, 2, 14, 9, 2, 2, 0, 12, 6, 7, 7, 14, 10, 9, 9, 8, 6, 9, 10, 7, 7, 13, 14, 15, 14, 13, 3, 11, 10, 13, 3, 3, 5, 15, 14, 2, 1, 13, 10, 2, 11, 10, 5, 10, 12, 15, 1, 5, 10, 1, 7, 10, 11, 8, 12, 3, 11, 4, 2, 8>>))))
    @@
    ((("(Some(\"6164e20ac3de15cbe6873d15338ae39392784d729dee7a4530ca5135588ce24e\"), 4)7d3c95f98bd2b66af7c1d3a16cad13e01562539e02afc9695b86a5416092645f7d3c95f98bd2b66af7c1d3a16cad13e01562539e02afc9695b86a5416092645f"
        :> <<2, 2, 15, 15, 6, 13, 6, 0, 14, 5, 0, 12, 6, 1, 2, 6, 0, 15, 0, 1, 5, 10, 11, 5, 12, 6, 6, 2, 15, 9, 15, 5, 10, 12, 3, 14, 3, 6, 8, 12, 0, 11, 8, 7, 8, 7, 8, 15, 12, 7, 8, 9, 8, 11, 10, 2, 15, 2, 9, 9, 12, 13, 3, 7>>)
    @@
    (("(Some(\"6164e20ac3de15cbe6873d15338ae39392784d729dee7a4530ca5135588ce24e\"), 4)7d3c95f98bd2b66af7c1d3a16cad13e01562539e02afc9695b86a5416092645f7d3c95f98bd2b66af7c1d3a16cad13e01562539e02afc9695b86a5416092645f0af7ba66f9a27ed0e229221aada0cc88d5d6fd58f46f72eb626bd37b8e94efc8"
        :> <<14, 0, 10, 4, 3, 8, 14, 11, 11, 2, 2, 2, 8, 12, 4, 11, 13, 7, 7, 4, 10, 1, 1, 15, 11, 3, 3, 11, 6, 9, 3, 9, 0, 1, 11, 8, 6, 2, 4, 7, 12, 6, 8, 3, 6, 5, 10, 12, 5, 8, 11, 14, 11, 14, 1, 12, 1, 8, 10, 7, 1, 6, 4, 5>>)
    @@
    ("(Some(\"6164e20ac3de15cbe6873d15338ae39392784d729dee7a4530ca5135588ce24e\"), 4)7d3c95f98bd2b66af7c1d3a16cad13e01562539e02afc9695b86a5416092645f7d3c95f98bd2b66af7c1d3a16cad13e01562539e02afc9695b86a5416092645f0f953d12a939fe4ef354fff77564841627136a6bf3667b256c4a5cb6768788da"
        :> <<12, 12, 15, 14, 5, 4, 1, 10, 3, 1, 2, 15, 7, 0, 1, 12, 15, 14, 12, 8, 9, 7, 3, 12, 2, 13, 8, 6, 10, 6, 5, 14, 11, 14, 2, 6, 1, 4, 3, 6, 8, 15, 4, 6, 8, 14, 8, 1, 7, 0, 7, 6, 2, 11, 2, 4, 10, 7, 14, 3, 7, 12, 6, 10>>)))
    @@
    ((("(Some(\"6164e20ac3de15cbe6873d15338ae39392784d729dee7a4530ca5135588ce24e\"), 4)7d3c95f98bd2b66af7c1d3a16cad13e01562539e02afc9695b86a5416092645f7d3c95f98bd2b66af7c1d3a16cad13e01562539e02afc9695b86a5416092645f140fc148a380d69b8753d296355d450a4c606dfa652482747ab694cd6ac23972"
        :> <<13, 4, 10, 7, 5, 9, 4, 14, 8, 15, 9, 7, 10, 1, 7, 1, 5, 1, 11, 6, 14, 3, 8, 15, 5, 10, 10, 10, 10, 6, 1, 4, 0, 10, 5, 1, 1, 10, 4, 15, 10, 6, 12, 11, 3, 2, 13, 12, 8, 10, 9, 12, 15, 9, 9, 2, 8, 6, 6, 2, 0, 15, 9, 9>>)
    @@
    ("(Some(\"6164e20ac3de15cbe6873d15338ae39392784d729dee7a4530ca5135588ce24e\"), 4)7d3c95f98bd2b66af7c1d3a16cad13e01562539e02afc9695b86a5416092645f7d3c95f98bd2b66af7c1d3a16cad13e01562539e02afc9695b86a5416092645f7d3c95f98bd2b66af7c1d3a16cad13e01562539e02afc9695b86a5416092645f"
        :> <<14, 12, 9, 9, 10, 15, 11, 1, 4, 1, 3, 14, 7, 12, 4, 6, 3, 14, 9, 6, 0, 1, 7, 14, 10, 14, 2, 2, 15, 13, 1, 14, 6, 14, 14, 1, 13, 12, 3, 6, 15, 10, 2, 6, 13, 2, 4, 3, 0, 14, 3, 8, 7, 5, 13, 8, 13, 2, 1, 12, 10, 5, 3, 11>>))
    @@
    (("(Some(\"6164e20ac3de15cbe6873d15338ae39392784d729dee7a4530ca5135588ce24e\"), 5)"
        :> <<12, 7, 8, 7, 13, 11, 7, 1, 13, 4, 13, 0, 12, 15, 0, 4, 11, 5, 13, 6, 4, 15, 8, 14, 1, 0, 9, 13, 13, 12, 13, 2, 3, 12, 9, 15, 12, 11, 14, 10, 10, 5, 9, 12, 5, 2, 12, 3, 12, 12, 12, 7, 9, 8, 7, 13, 3, 3, 10, 14, 11, 5, 10, 11>>)
    @@
    ("(Some(\"6164e20ac3de15cbe6873d15338ae39392784d729dee7a4530ca5135588ce24e\"), 5)0af7ba66f9a27ed0e229221aada0cc88d5d6fd58f46f72eb626bd37b8e94efc8"
        :> <<15, 9, 10, 14, 11, 12, 3, 14, 2, 3, 12, 4, 11, 11, 3, 11, 1, 6, 6, 9, 1, 15, 9, 5, 1, 9, 2, 7, 13, 5, 2, 6, 1, 8, 12, 11, 1, 13, 2, 7, 3, 6, 14, 15, 4, 5, 10, 0, 10, 4, 10, 10, 0, 2, 15, 9, 13, 1, 14, 10, 15, 4, 15, 12>>))))))
    @@
    ((((("(Some(\"6164e20ac3de15cbe6873d15338ae39392784d729dee7a4530ca5135588ce24e\"), 5)0af7ba66f9a27ed0e229221aada0cc88d5d6fd58f46f72eb626bd37b8e94efc80af7ba66f9a27ed0e229221aada0cc88d5d6fd58f46f72eb626bd37b8e94efc8"
        :> <<9, 5, 7, 2, 7, 10, 8, 1, 15, 12, 6, 1, 6, 4, 14, 4, 1, 0, 0, 1, 5, 12, 14, 10, 4, 6, 3, 1, 9, 8, 11, 1, 2, 14, 15, 1, 1, 6, 11, 6, 8, 1, 5, 11, 15, 5, 4, 11, 6, 3, 6, 7, 13, 7, 2, 0, 1, 12, 10, 8, 12, 0, 15, 8>>)
    @@
    (("(Some(\"6164e20ac3de15cbe6873d15338ae39392784d729dee7a4530ca5135588ce24e\"), 5)0af7ba66f9a27ed0e229221aada0cc88d5d6fd58f46f72eb626bd37b8e94efc80af7ba66f9a27ed0e229221aada0cc88d5d6fd58f46f72eb626bd37b8e94efc80af7ba66f9a27ed0e229221aada0cc88d5d6fd58f46f72eb626bd37b8e94efc8"
        :> <<6, 12, 14, 5, 1, 3, 0, 1, 8, 11, 11, 4, 11, 12, 4, 1, 9, 0, 6, 3, 2, 7, 13, 0, 15, 10, 14, 4, 10, 10, 14, 1, 7, 13, 4, 6, 5, 9, 0, 6, 2, 12, 12, 11, 11, 9, 12, 14, 8, 14, 3, 14, 6, 15, 7, 2, 10, 15, 3, 0, 9, 4, 5, 12>>)
    @@
    ("(Some(\"6164e20ac3de15cbe6873d15338ae39392784d729dee7a4530ca5135588ce24e\"), 5)0af7ba66f9a27ed0e229221aada0cc88d5d6fd58f46f72eb626bd37b8e94efc80af7ba66f9a27ed0e229221aada0cc88d5d6fd58f46f72eb626bd37b8e94efc80f953d12a939fe4ef354fff77564841627136a6bf3667b256c4a5cb6768788da"
        :> <<2, 6, 15, 8, 6, 5, 4, 2, 7, 12, 12, 7, 12, 1, 0, 14, 9, 13, 7, 4, 2, 11, 0, 7, 15, 14, 8, 8, 13, 6, 1, 12, 9, 4, 7, 7, 9, 2, 5, 10, 14, 0, 7, 14, 3, 0, 14, 8, 4, 5, 11, 6, 7, 10, 6, 6, 1, 2, 9, 9, 0, 2, 0, 2>>)))
    @@
    (("(Some(\"6164e20ac3de15cbe6873d15338ae39392784d729dee7a4530ca5135588ce24e\"), 5)0af7ba66f9a27ed0e229221aada0cc88d5d6fd58f46f72eb626bd37b8e94efc80af7ba66f9a27ed0e229221aada0cc88d5d6fd58f46f72eb626bd37b8e94efc8140fc148a380d69b8753d296355d450a4c606dfa652482747ab694cd6ac23972"
        :> <<7, 11, 10, 8, 12, 2, 12, 14, 3, 3, 15, 10, 4, 10, 13, 4, 3, 12, 5, 2, 14, 2, 5, 15, 5, 14, 1, 8, 10, 12, 8, 2, 13, 8, 2, 9, 0, 4, 7, 9, 2, 0, 1, 4, 4, 15, 7, 8, 6, 1, 0, 1, 6, 12, 5, 9, 15, 15, 7, 7, 9, 5, 13, 3>>)
    @@
    (("(Some(\"6164e20ac3de15cbe6873d15338ae39392784d729dee7a4530ca5135588ce24e\"), 5)0af7ba66f9a27ed0e229221aada0cc88d5d6fd58f46f72eb626bd37b8e94efc80af7ba66f9a27ed0e229221aada0cc88d5d6fd58f46f72eb626bd37b8e94efc87d3c95f98bd2b66af7c1d3a16cad13e01562539e02afc9695b86a5416092645f"
        :> <<10, 15, 3, 3, 0, 1, 15, 13, 7, 7, 9, 1, 11, 7, 12, 15, 6, 1, 11, 4, 11, 7, 2, 0, 14, 14, 12, 10, 1, 15, 15, 7, 8, 15, 15, 9, 5, 9, 8, 11, 15, 14, 0, 12, 4, 12, 3, 10, 7, 0, 4, 3, 15, 15, 1, 10, 7, 3, 15, 12, 5, 9, 7, 15>>)
    @@
    ("(Some(\"6164e20ac3de15cbe6873d15338ae39392784d729dee7a4530ca5135588ce24e\"), 5)0af7ba66f9a27ed0e229221aada0cc88d5d6fd58f46f72eb626bd37b8e94efc80f953d12a939fe4ef354fff77564841627136a6bf3667b256c4a5cb6768788da"
        :> <<5, 4, 11, 4, 8, 7, 7, 8, 4, 1, 5, 8, 0, 12, 8, 9, 15, 6, 6, 7, 13, 9, 9, 4, 1, 14, 12, 4, 2, 2, 6, 14, 15, 3, 5, 5, 10, 11, 7, 5, 7, 7, 0, 1, 13, 8, 12, 4, 10, 0, 7, 8, 3, 13, 10, 11, 13, 3, 15, 8, 1, 14, 5, 14>>))))
    @@
    ((("(Some(\"6164e20ac3de15cbe6873d15338ae39392784d729dee7a4530ca5135588ce24e\"), 5)0af7ba66f9a27ed0e229221aada0cc88d5d6fd58f46f72eb626bd37b8e94efc80f953d12a939fe4ef354fff77564841627136a6bf3667b256c4a5cb6768788da0af7ba66f9a27ed0e229221aada0cc88d5d6fd58f46f72eb626bd37b8e94efc8"
        :> <<5, 9, 1, 6, 12, 8, 5, 15, 12, 13, 15, 3, 4, 15, 8, 10, 11, 12, 12, 3, 10, 2, 10, 6, 0, 10, 5, 6, 13, 0, 11, 1, 4, 2, 7, 5, 15, 11, 11, 8, 13, 2, 5, 4, 14, 6, 1, 5, 15, 7, 13, 8, 9, 0, 9, 7, 15, 3, 2, 11, 13, 13, 15, 1>>)
    @@
    (("(Some(\"6164e20ac3de15cbe6873d15338ae39392784d729dee7a4530ca5135588ce24e\"), 5)0af7ba66f9a27ed0e229221aada0cc88d5d6fd58f46f72eb626bd37b8e94efc80f953d12a939fe4ef354fff77564841627136a6bf3667b256c4a5cb6768788da0f953d12a939fe4ef354fff77564841627136a6bf3667b256c4a5cb6768788da"
        :> <<4, 6, 3, 9, 10, 3, 8, 0, 11, 4, 2, 2, 4, 8, 5, 15, 15, 7, 1, 8, 15, 6, 5, 7, 14, 15, 9, 4, 5, 0, 14, 8, 3, 6, 8, 1, 9, 1, 0, 10, 12, 13, 4, 6, 3, 11, 10, 1, 11, 2, 14, 1, 0, 2, 9, 5, 6, 14, 4, 6, 1, 7, 0, 5>>)
    @@
    ("(Some(\"6164e20ac3de15cbe6873d15338ae39392784d729dee7a4530ca5135588ce24e\"), 5)0af7ba66f9a27ed0e229221aada0cc88d5d6fd58f46f72eb626bd37b8e94efc80f953d12a939fe4ef354fff77564841627136a6bf3667b256c4a5cb6768788da140fc148a380d69b8753d296355d450a4c606dfa652482747ab694cd6ac23972"
        :> <<9, 5, 11, 7, 0, 0, 4, 9, 8, 1, 1, 3, 0, 3, 6, 0, 14, 9, 13, 15, 0, 7, 1, 1, 12, 1, 4, 5, 2, 6, 3, 8, 9, 14, 6, 10, 4, 11, 4, 4, 15, 3, 11, 5, 10, 2, 13, 11, 13, 15, 1, 6, 11, 5, 6, 1, 14, 12, 13, 2, 4, 0, 6, 0>>)))
    @@
    ((("(Some(\"6164e20ac3de15cbe6873d15338ae39392784d729dee7a4530ca5135588ce24e\"), 5)0af7ba66f9a27ed0e229221aada0cc88d5d6fd58f46f72eb626bd37b8e94efc80f953d12a939fe4ef354fff77564841627136a6bf3667b256c4a5cb6768788da7d3c95f98bd2b66af7c1d3a16cad13e01562539e02afc9695b86a5416092645f"
        :> <<3, 5, 15, 9, 3, 4, 6, 15, 15, 5, 2, 15, 13, 8, 1, 10, 13, 2, 3, 12, 6, 2, 0, 14, 9, 8, 6, 8, 4, 14, 9, 15, 0, 1, 8, 2, 8, 7, 7, 11, 4, 12, 0, 6, 8, 12, 13, 3, 3, 10, 10, 0, 11, 12, 13, 1, 15, 15, 10, 9, 13, 11, 5, 11>>)
    @@
    ("(Some(\"6164e20ac3de15cbe6873d15338ae39392784d729dee7a4530ca5135588ce24e\"), 5)0af7ba66f9a27ed0e229221aada0cc88d5d6fd58f46f72eb626bd37b8e94efc8140fc148a380d69b8753d296355d450a4c606dfa652482747ab694cd6ac23972"
        :> <<6, 5, 14, 11, 9, 14, 10, 6, 8, 3, 5, 4, 9, 13, 9, 9, 7, 0, 12, 13, 8, 11, 12, 6, 14, 6, 3, 12, 10, 1, 7, 7, 10, 12, 0, 0, 14, 11, 6, 14, 8, 7, 3, 1, 11, 14, 0, 8, 11, 11, 7, 12, 14, 3, 2, 7, 14, 2, 6, 6, 13, 9, 5, 10>>))
    @@
    (("(Some(\"6164e20ac3de15cbe6873d15338ae39392784d729dee7a4530ca5135588ce24e\"), 5)0af7ba66f9a27ed0e229221aada0cc88d5d6fd58f46f72eb626bd37b8e94efc8140fc148a380d69b8753d296355d450a4c606dfa652482747ab694cd6ac239720af7ba66f9a27ed0e229221aada0cc88d5d6fd58f46f72eb626bd37b8e94efc8"
        :> <<15, 7, 1, 5, 2, 3, 3, 0, 3, 10, 12, 3, 0, 5, 3, 10, 8, 4, 2, 2, 14, 8, 3, 4, 13, 5, 3, 1, 9, 11, 13, 15, 10, 7, 5, 12, 12, 4, 3, 6, 7, 9, 5, 10, 2, 5, 0, 14, 12, 1, 8, 7, 6, 10, 12, 8, 12, 15, 11, 11, 6, 14, 7, 1>>)
    @@
    ("(Some(\"6164e20ac3de15cbe6873d15338ae39392784d729dee7a4530ca5135588ce24e\"), 5)0af7ba66f9a27ed0e229221aada0cc88d5d6fd58f46f72eb626bd37b8e94efc8140fc148a380d69b8753d296355d450a4c606dfa652482747ab694cd6ac239720f953d12a939fe4ef354fff77564841627136a6bf3667b256c4a5cb6768788da"
        :> <<8, 5, 13, 2, 2, 15, 15, 11, 0, 5, 4, 15, 8, 14, 12, 13, 2, 8, 5, 3, 2, 2, 15, 8, 14, 13, 7, 13, 12, 9, 1, 2, 8, 10, 5, 2, 2, 5, 15, 14, 6, 6, 12, 9, 6, 1, 6, 9, 6, 4, 13, 2, 3, 2, 2, 1, 10, 10, 3, 2, 7, 10, 2, 12>>)))))
    @@
    (((("(Some(\"6164e20ac3de15cbe6873d15338ae39392784d729dee7a4530ca5135588ce24e\"), 5)0af7ba66f9a27ed0e229221aada0cc88d5d6fd58f46f72eb626bd37b8e94efc8140fc148a380d69b8753d296355d450a4c606dfa652482747ab694cd6ac23972140fc148a380d69b8753d296355d450a4c606dfa652482747ab694cd6ac23972"
        :> <<0, 8, 1, 1, 1, 6, 14, 8, 4, 8, 7, 14, 6, 13, 15, 7, 1, 0, 10, 1, 15, 10, 11, 15, 6, 0, 10, 2, 9, 15, 8, 11, 14, 9, 12, 11, 15, 10, 15, 4, 10, 10, 3, 10, 6, 1, 7, 0, 3, 10, 2, 12, 13, 9, 6, 12, 2, 4, 15, 8, 15, 6, 13, 15>>)
    @@
    (("(Some(\"6164e20ac3de15cbe6873d15338ae39392784d729dee7a4530ca5135588ce24e\"), 5)0af7ba66f9a27ed0e229221aada0cc88d5d6fd58f46f72eb626bd37b8e94efc8140fc148a380d69b8753d296355d450a4c606dfa652482747ab694cd6ac239727d3c95f98bd2b66af7c1d3a16cad13e01562539e02afc9695b86a5416092645f"
        :> <<6, 10, 15, 0, 8, 10, 4, 3, 2, 3, 13, 13, 6, 3, 7, 2, 11, 3, 11, 9, 12, 0, 11, 10, 1, 3, 14, 14, 6, 7, 10, 14, 8, 3, 4, 8, 5, 6, 5, 10, 5, 10, 13, 3, 11, 8, 4, 11, 4, 8, 12, 1, 0, 14, 11, 13, 14, 10, 13, 9, 12, 12, 3, 11>>)
    @@
    ("(Some(\"6164e20ac3de15cbe6873d15338ae39392784d729dee7a4530ca5135588ce24e\"), 5)0af7ba66f9a27ed0e229221aada0cc88d5d6fd58f46f72eb626bd37b8e94efc87d3c95f98bd2b66af7c1d3a16cad13e01562539e02afc9695b86a5416092645f"
        :> <<8, 1, 4, 0, 6, 6, 7, 12, 0, 14, 1, 11, 15, 3, 5, 0, 5, 0, 12, 12, 11, 12, 8, 15, 14, 1, 1, 15, 6, 4, 15, 7, 4, 5, 5, 8, 7, 5, 5, 14, 7, 1, 1, 15, 14, 14, 9, 11, 4, 5, 7, 4, 10, 0, 5, 6, 4, 13, 3, 4, 13, 12, 3, 1>>)))
    @@
    (("(Some(\"6164e20ac3de15cbe6873d15338ae39392784d729dee7a4530ca5135588ce24e\"), 5)0af7ba66f9a27ed0e229221aada0cc88d5d6fd58f46f72eb626bd37b8e94efc87d3c95f98bd2b66af7c1d3a16cad13e01562539e02afc9695b86a5416092645f0af7ba66f9a27ed0e229221aada0cc88d5d6fd58f46f72eb626bd37b8e94efc8"
        :> <<4, 3, 5, 7, 0, 8, 11, 13, 3, 1, 6, 13, 3, 14, 5, 0, 4, 9, 13, 4, 3, 11, 12, 11, 1, 7, 4, 3, 1, 1, 5, 14, 4, 12, 3, 9, 4, 5, 9, 9, 1, 6, 8, 15, 6, 3, 8, 15, 4, 15, 14, 5, 9, 10, 13, 5, 5, 15, 4, 7, 2, 1, 2, 9>>)
    @@
    (("(Some(\"6164e20ac3de15cbe6873d15338ae39392784d729dee7a4530ca5135588ce24e\"), 5)0af7ba66f9a27ed0e229221aada0cc88d5d6fd58f46f72eb626bd37b8e94efc87d3c95f98bd2b66af7c1d3a16cad13e01562539e02afc9695b86a5416092645f0f953d12a939fe4ef354fff77564841627136a6bf3667b256c4a5cb6768788da"
        :> <<15, 14, 0, 12, 13, 7, 13, 4, 4, 8, 5, 2, 14, 0, 9, 15, 2, 3, 5, 2, 13, 11, 0, 13, 3, 0, 11, 15, 2, 15, 3, 9, 13, 5, 14, 10, 14, 9, 8, 12, 11, 7, 9, 12, 1, 3, 2, 15, 9, 3, 3, 5, 1, 9, 15, 9, 12, 5, 11, 4, 0, 2, 15, 7>>)
    @@
    ("(Some(\"6164e20ac3de15cbe6873d15338ae39392784d729dee7a4530ca5135588ce24e\"), 5)0af7ba66f9a27ed0e229221aada0cc88d5d6fd58f46f72eb626bd37b8e94efc87d3c95f98bd2b66af7c1d3a16cad13e01562539e02afc9695b86a5416092645f140fc148a380d69b8753d296355d450a4c606dfa652482747ab694cd6ac23972"
        :> <<10, 15, 6, 8, 14, 9, 9, 5, 3, 0, 5, 4, 10, 13, 4, 10, 6, 15, 6, 5, 12, 12, 5, 7, 4, 3, 3, 11, 8, 4, 8, 4, 8, 9, 15, 11, 14, 8, 7, 0, 6, 8, 7, 6, 10, 15, 5, 10, 0, 11, 3, 1, 11, 14, 3, 7, 1, 4, 12, 15, 8, 15, 10, 13>>))))
    @@
    ((("(Some(\"6164e20ac3de15cbe6873d15338ae39392784d729dee7a4530ca5135588ce24e\"), 5)0af7ba66f9a27ed0e229221aada0cc88d5d6fd58f46f72eb626bd37b8e94efc87d3c95f98bd2b66af7c1d3a16cad13e01562539e02afc9695b86a5416092645f7d3c95f98bd2b66af7c1d3a16cad13e01562539e02afc9695b86a5416092645f"
        :> <<2, 8, 14, 15, 13, 9, 0, 8, 7, 8, 5, 4, 4, 12, 10, 11, 10, 0, 6, 8, 7, 10, 1, 15, 10, 1, 7, 7, 15, 4, 4, 7, 13, 15, 3, 1, 6, 13, 13, 4, 10, 6, 6, 9, 1, 5, 6, 0, 14, 12, 7, 4, 8, 15, 2, 4, 14, 3, 12, 2, 3, 4, 12, 3>>)
    @@
    (("(Some(\"6164e20ac3de15cbe6873d15338ae39392784d729dee7a4530ca5135588ce24e\"), 5)0f953d12a939fe4ef354fff77564841627136a6bf3667b256c4a5cb6768788da"
        :> <<0, 1, 2, 15, 13, 2, 1, 8, 4, 13, 2, 9, 12, 14, 11, 9, 7, 5, 11, 2, 12, 8, 13, 9, 10, 14, 4, 2, 2, 13, 9, 4, 11, 12, 4, 4, 3, 13, 1, 15, 13, 12, 5, 1, 3, 10, 12, 5, 4, 14, 13, 4, 12, 11, 1, 5, 10, 15, 9, 13, 10, 15, 2, 11>>)
    @@
    ("(Some(\"6164e20ac3de15cbe6873d15338ae39392784d729dee7a4530ca5135588ce24e\"), 5)0f953d12a939fe4ef354fff77564841627136a6bf3667b256c4a5cb6768788da0af7ba66f9a27ed0e229221aada0cc88d5d6fd58f46f72eb626bd37b8e94efc8"
        :> <<4, 0, 6, 12, 6, 2, 9, 3, 1, 13, 5, 9, 15, 8, 7, 7, 7, 6, 0, 7, 1, 3, 1, 7, 0, 11, 0, 15, 1, 4, 6, 15, 8, 4, 12, 8, 6, 4, 8, 0, 0, 1, 1, 8, 9, 9, 4, 13, 7, 2, 5, 9, 4, 11, 10, 13, 11, 15, 15, 8, 0, 0, 5, 9>>)))
    @@
    ((("(Some(\"6164e20ac3de15cbe6873d15338ae39392784d729dee7a4530ca5135588ce24e\"), 5)0f953d12a939fe4ef354fff77564841627136a6bf3667b256c4a5cb6768788da0af7ba66f9a27ed0e229221aada0cc88d5d6fd58f46f72eb626bd37b8e94efc80af7ba66f9a27ed0e229221aada0cc88d5d6fd58f46f72eb626bd37b8e94efc8"
        :> <<14, 4, 9, 2, 6, 4, 11, 0, 10, 6, 10, 3, 10, 14, 11, 7, 1, 4, 10, 1, 5, 5, 8, 12, 14, 7, 3, 13, 7, 2, 9, 3, 8, 1, 1, 15, 15, 9, 13, 15, 2, 11, 6, 1, 4, 10, 12, 15, 8, 0, 2, 1, 2, 14, 5, 10, 10, 7, 9, 11, 9, 14, 8, 8>>)
    @@
    ("(Some(\"6164e20ac3de15cbe6873d15338ae39392784d729dee7a4530ca5135588ce24e\"), 5)0f953d12a939fe4ef354fff77564841627136a6bf3667b256c4a5cb6768788da0af7ba66f9a27ed0e229221aada0cc88d5d6fd58f46f72eb626bd37b8e94efc80f953d12a939fe4ef354fff77564841627136a6bf3667b256c4a5cb6768788da"
        :> <<9, 6, 14, 2, 15, 0, 0, 14, 1, 4, 15, 10, 12, 12, 9, 0, 1, 14, 13, 2, 14, 11, 11, 6, 13, 5, 9, 5, 6, 7, 2, 0, 15, 0, 4, 7, 13, 9, 7, 2, 13, 12, 8, 5, 0, 13, 12, 3, 10, 13, 7, 14, 15, 14, 2, 13, 15, 8, 15, 3, 7, 12, 6, 2>>))
    @@
    (("(Some(\"6164e20ac3de15cbe6873d15338ae39392784d729dee7a4530ca5135588ce24e\"), 5)0f953d12a939fe4ef354fff77564841627136a6bf3667b256c4a5cb6768788da0af7ba66f9a27ed0e229221aada0cc88d5d6fd58f46f72eb626bd37b8e94efc8140fc148a380d69b8753d296355d450a4c606dfa652482747ab694cd6ac23972"
        :> <<6, 6, 7, 2, 5, 4, 3, 8, 5, 5, 12, 4, 10, 6, 9, 12, 12, 5, 14, 12, 12, 10, 7, 7, 10, 0, 4, 13, 0, 9, 15, 2, 9, 4, 2, 5, 11, 2, 0, 4, 10, 13, 4, 14, 2, 5, 12, 7, 11, 8, 4, 14, 8, 3, 2, 15, 12, 8, 15, 10, 1, 0, 11, 5>>)
    @@
    ("(Some(\"6164e20ac3de15cbe6873d15338ae39392784d729dee7a4530ca5135588ce24e\"), 5)0f953d12a939fe4ef354fff77564841627136a6bf3667b256c4a5cb6768788da0af7ba66f9a27ed0e229221aada0cc88d5d6fd58f46f72eb626bd37b8e94efc87d3c95f98bd2b66af7c1d3a16cad13e01562539e02afc9695b86a5416092645f"
        :> <<2, 13, 9, 14, 4, 9, 8, 13, 5, 0, 13, 3, 13, 15, 10, 2, 1, 2, 1, 8, 3, 9, 1, 2, 5, 8, 7, 9, 10, 5, 3, 2, 3, 0, 10, 3, 13, 11, 14, 3, 6, 7, 14, 14, 10, 9, 12, 10, 12, 11, 5, 13, 7, 10, 5, 2, 15, 12, 5, 2, 14, 6, 3, 1>>)))))))
    @@
    (((((("(Some(\"6164e20ac3de15cbe6873d15338ae39392784d729dee7a4530ca5135588ce24e\"), 5)0f953d12a939fe4ef354fff77564841627136a6bf3667b256c4a5cb6768788da0f953d12a939fe4ef354fff77564841627136a6bf3667b256c4a5cb6768788da"
        :> <<9, 13, 1, 6, 3, 4, 4, 10, 3, 5, 8, 6, 6, 4, 6, 13, 0, 9, 4, 13, 12, 11, 2, 6, 2, 9, 6, 7, 13, 5, 2, 6, 14, 5, 0, 7, 10, 5, 3, 6, 14, 9, 12, 7, 0, 2, 2, 3, 1, 12, 6, 5, 12, 10, 9, 7, 4, 8, 1, 1, 10, 1, 15, 2>>)
    @@
    (("(Some(\"6164e20ac3de15cbe6873d15338ae39392784d729dee7a4530ca5135588ce24e\"), 5)0f953d12a939fe4ef354fff77564841627136a6bf3667b256c4a5cb6768788da0f953d12a939fe4ef354fff77564841627136a6bf3667b256c4a5cb6768788da0af7ba66f9a27ed0e229221aada0cc88d5d6fd58f46f72eb626bd37b8e94efc8"
        :> <<1, 13, 9, 4, 12, 12, 2, 4, 1, 1, 12, 8, 4, 15, 5, 4, 12, 7, 3, 3, 15, 3, 5, 5, 10, 1, 6, 8, 5, 6, 5, 1, 11, 1, 4, 15, 1, 11, 7, 2, 2, 8, 6, 1, 0, 6, 6, 2, 9, 3, 9, 12, 8, 4, 13, 8, 8, 4, 13, 11, 2, 0, 2, 0>>)
    @@
    ("(Some(\"6164e20ac3de15cbe6873d15338ae39392784d729dee7a4530ca5135588ce24e\"), 5)0f953d12a939fe4ef354fff77564841627136a6bf3667b256c4a5cb6768788da0f953d12a939fe4ef354fff77564841627136a6bf3667b256c4a5cb6768788da0f953d12a939fe4ef354fff77564841627136a6bf3667b256c4a5cb6768788da"
        :> <<4, 12, 11, 4, 8, 14, 6, 12, 14, 7, 1, 3, 12, 14, 11, 1, 11, 4, 2, 11, 12, 14, 3, 6, 5, 7, 8, 3, 0, 13, 10, 9, 3, 2, 14, 0, 6, 1, 4, 3, 14, 5, 3, 13, 7, 13, 7, 13, 0, 14, 7, 12, 1, 7, 3, 4, 15, 15, 12, 11, 9, 10, 14, 2>>)))
    @@
    (("(Some(\"6164e20ac3de15cbe6873d15338ae39392784d729dee7a4530ca5135588ce24e\"), 5)0f953d12a939fe4ef354fff77564841627136a6bf3667b256c4a5cb6768788da0f953d12a939fe4ef354fff77564841627136a6bf3667b256c4a5cb6768788da140fc148a380d69b8753d296355d450a4c606dfa652482747ab694cd6ac23972"
        :> <<0, 8, 4, 0, 10, 6, 8, 2, 8, 4, 0, 10, 4, 1, 7, 9, 13, 3, 7, 10, 10, 14, 6, 10, 2, 4, 14, 5, 1, 12, 3, 7, 1, 4, 14, 6, 9, 8, 8, 10, 6, 7, 13, 0, 6, 12, 6, 11, 8, 0, 3, 11, 1, 5, 3, 14, 14, 12, 6, 7, 9, 9, 4, 7>>)
    @@
    (("(Some(\"6164e20ac3de15cbe6873d15338ae39392784d729dee7a4530ca5135588ce24e\"), 5)0f953d12a939fe4ef354fff77564841627136a6bf3667b256c4a5cb6768788da0f953d12a939fe4ef354fff77564841627136a6bf3667b256c4a5cb6768788da7d3c95f98bd2b66af7c1d3a16cad13e01562539e02afc9695b86a5416092645f"
        :> <<3, 12, 11, 11, 13, 4, 8, 15, 0, 7, 3, 7, 5, 9, 10, 13, 15, 0, 9, 5, 9, 11, 4, 2, 10, 12, 11, 3, 9, 1, 10, 1, 15, 2, 4, 10, 5, 3, 14, 8, 7, 3, 0, 11, 2, 12, 1, 9, 10, 6, 3, 6, 7, 11, 3, 15, 4, 1, 3, 4, 4, 2, 10, 10>>)
    @@
    ("(Some(\"6164e20ac3de15cbe6873d15338ae39392784d729dee7a4530ca5135588ce24e\"), 5)0f953d12a939fe4ef354fff77564841627136a6bf3667b256c4a5cb6768788da140fc148a380d69b8753d296355d450a4c606dfa652482747ab694cd6ac23972"
        :> <<8, 10, 13, 13, 2, 9, 8, 6, 11, 15, 5, 0, 8, 14, 2, 9, 6, 1, 10, 10, 0, 0, 0, 9, 8, 7, 5, 5, 2, 12, 13, 14, 13, 13, 4, 6, 1, 0, 13, 1, 3, 12, 1, 13, 14, 12, 13, 9, 9, 8, 6, 10, 3, 6, 5, 13, 1, 8, 5, 6, 15, 3, 10, 11>>))))
    @@
    ((("(Some(\"6164e20ac3de15cbe6873d15338ae39392784d729dee7a4530ca5135588ce24e\"), 5)0f953d12a939fe4ef354fff77564841627136a6bf3667b256c4a5cb6768788da140fc148a380d69b8753d296355d450a4c606dfa652482747ab694cd6ac239720af7ba66f9a27ed0e229221aada0cc88d5d6fd58f46f72eb626bd37b8e94efc8"
        :> <<15, 4, 13, 7, 0, 12, 10, 6, 2, 7, 14, 12, 10, 9, 12, 14, 0, 0, 9, 3, 10, 2, 8, 13, 14, 15, 8, 2, 13, 0, 4, 13, 1, 15, 4, 12, 9, 4, 4, 1, 4, 6, 8, 10, 14, 3, 9, 3, 5, 0, 11, 7, 4, 5, 1, 2, 3, 9, 10, 14, 5, 4, 10, 2>>)
    @@
    (("(Some(\"6164e20ac3de15cbe6873d15338ae39392784d729dee7a4530ca5135588ce24e\"), 5)0f953d12a939fe4ef354fff77564841627136a6bf3667b256c4a5cb6768788da140fc148a380d69b8753d296355d450a4c606dfa652482747ab694cd6ac239720f953d12a939fe4ef354fff77564841627136a6bf3667b256c4a5cb6768788da"
        :> <<3, 15, 9, 8, 13, 5, 12, 6, 2, 3, 11, 2, 7, 9, 15, 14, 10, 5, 7, 5, 4, 10, 14, 12, 6, 12, 12, 12, 15, 7, 13, 8, 8, 10, 15, 7, 15, 15, 12, 3, 15, 13, 5, 3, 0, 0, 14, 11, 0, 3, 4, 6, 3, 11, 10, 7, 8, 8, 11, 3, 11, 12, 1, 11>>)
    @@
    ("(Some(\"6164e20ac3de15cbe6873d15338ae39392784d729dee7a4530ca5135588ce24e\"), 5)0f953d12a939fe4ef354fff77564841627136a6bf3667b256c4a5cb6768788da140fc148a380d69b8753d296355d450a4c606dfa652482747ab694cd6ac23972140fc148a380d69b8753d296355d450a4c606dfa652482747ab694cd6ac23972"
        :> <<2, 7, 2, 9, 9, 3, 12, 5, 13, 11, 3, 1, 10, 11, 10, 3, 13, 5, 12, 13, 6, 6, 13, 15, 0, 13, 8, 6, 4, 5, 10, 7, 2, 9, 5, 12, 15, 11, 4, 7, 2, 9, 2, 3, 0, 1, 15, 5, 6, 8, 9, 11, 12, 12, 4, 2, 11, 13, 0, 15, 5, 2, 8, 8>>)))
    @@
    ((("(Some(\"6164e20ac3de15cbe6873d15338ae39392784d729dee7a4530ca5135588ce24e\"), 5)0f953d12a939fe4ef354fff77564841627136a6bf3667b256c4a5cb6768788da140fc148a380d69b8753d296355d450a4c606dfa652482747ab694cd6ac239727d3c95f98bd2b66af7c1d3a16cad13e01562539e02afc9695b86a5416092645f"
        :> <<1, 15, 14, 9, 10, 9, 10, 0, 11, 12, 1, 11, 15, 0, 11, 14, 9, 14, 8, 13, 4, 14, 15, 13, 0, 4, 12, 3, 7, 7, 12, 9, 2, 8, 1, 14, 2, 11, 5, 15, 15, 9, 15, 11, 11, 10, 9, 8, 14, 4, 5, 9, 13, 8, 1, 5, 1, 4, 9, 12, 3, 5, 4, 5>>)
    @@
    ("(Some(\"6164e20ac3de15cbe6873d15338ae39392784d729dee7a4530ca5135588ce24e\"), 5)0f953d12a939fe4ef354fff77564841627136a6bf3667b256c4a5cb6768788da7d3c95f98bd2b66af7c1d3a16cad13e01562539e02afc9695b86a5416092645f"
        :> <<2, 13, 9, 7, 3, 14, 12, 8, 6, 1, 8, 3, 6, 9, 1, 1, 14, 5, 9, 11, 4, 14, 5, 8, 8, 11, 2, 6, 13, 14, 7, 11, 5, 15, 15, 9, 15, 12, 1, 12, 1, 5, 12, 13, 5, 5, 7, 15, 2, 4, 1, 0, 15, 10, 10, 11, 10, 2, 6, 5, 3, 11, 2, 2>>))
    @@
    (("(Some(\"6164e20ac3de15cbe6873d15338ae39392784d729dee7a4530ca5135588ce24e\"), 5)0f953d12a939fe4ef354fff77564841627136a6bf3667b256c4a5cb6768788da7d3c95f98bd2b66af7c1d3a16cad13e01562539e02afc9695b86a5416092645f0af7ba66f9a27ed0e229221aada0cc88d5d6fd58f46f72eb626bd37b8e94efc8"
        :> <<1, 0, 3, 1, 6, 0, 4, 12, 11, 13, 3, 1, 7, 11, 13, 3, 5, 7, 5, 7, 3, 3, 2, 12, 15, 7, 3, 14, 15, 1, 14, 12, 11, 8, 11, 10, 9, 1, 3, 8, 0, 0, 14, 9, 14, 4, 9, 10, 3, 15, 12, 1, 15, 13, 9, 6, 4, 13, 3, 6, 13, 2, 0, 6>>)
    @@
    ("(Some(\"6164e20ac3de15cbe6873d15338ae39392784d729dee7a4530ca5135588ce24e\"), 5)0f953d12a939fe4ef354fff77564841627136a6bf3667b256c4a5cb6768788da7d3c95f98bd2b66af7c1d3a16cad13e01562539e02afc9695b86a5416092645f0f953d12a939fe4ef354fff77564841627136a6bf3667b256c4a5cb6768788da"
        :> <<2, 5, 0, 8, 11, 15, 12, 0, 7, 2, 8, 15, 6, 11, 13, 2, 9, 2, 6, 4, 1, 9, 15, 12, 6, 8, 5, 15, 14, 6, 4, 1, 14, 8, 0, 14, 0, 10, 6, 15, 7, 15, 7, 9, 14, 4, 8, 14, 8, 0, 4, 12, 0, 4, 1, 4, 12, 12, 11, 5, 7, 15, 7, 9>>)))))
    @@
    (((("(Some(\"6164e20ac3de15cbe6873d15338ae39392784d729dee7a4530ca5135588ce24e\"), 5)0f953d12a939fe4ef354fff77564841627136a6bf3667b256c4a5cb6768788da7d3c95f98bd2b66af7c1d3a16cad13e01562539e02afc9695b86a5416092645f140fc148a380d69b8753d296355d450a4c606dfa652482747ab694cd6ac23972"
        :> <<8, 10, 11, 1, 12, 15, 0, 12, 0, 9, 2, 15, 6, 14, 11, 9, 15, 11, 13, 10, 2, 0, 5, 15, 3, 14, 12, 15, 11, 4, 13, 0, 7, 7, 12, 15, 9, 5, 13, 9, 1, 8, 12, 9, 14, 5, 6, 8, 8, 3, 2, 7, 5, 9, 13, 2, 1, 6, 3, 9, 15, 4, 11, 4>>)
    @@
    (("(Some(\"6164e20ac3de15cbe6873d15338ae39392784d729dee7a4530ca5135588ce24e\"), 5)0f953d12a939fe4ef354fff77564841627136a6bf3667b256c4a5cb6768788da7d3c95f98bd2b66af7c1d3a16cad13e01562539e02afc9695b86a5416092645f7d3c95f98bd2b66af7c1d3a16cad13e01562539e02afc9695b86a5416092645f"
        :> <<13, 13, 10, 2, 3, 2, 12, 3, 14, 9, 8, 11, 14, 4, 5, 4, 7, 6, 7, 2, 0, 11, 6, 0, 7, 15, 2, 10, 4, 12, 4, 14, 6, 13, 1, 6, 6, 5, 11, 0, 2, 15, 5, 2, 6, 6, 7, 7, 3, 7, 15, 5, 9, 9, 13, 12, 6, 12, 15, 13, 1, 10, 9, 6>>)
    @@
    ("(Some(\"6164e20ac3de15cbe6873d15338ae39392784d729dee7a4530ca5135588ce24e\"), 5)140fc148a380d69b8753d296355d450a4c606dfa652482747ab694cd6ac23972"
        :> <<9, 2, 6, 2, 10, 6, 1, 1, 15, 9, 13, 3, 0, 6, 1, 14, 1, 7, 10, 12, 8, 12, 14, 12, 6, 6, 15, 15, 1, 6, 3, 14, 15, 9, 5, 4, 14, 4, 15, 9, 5, 11, 8, 12, 10, 6, 1, 3, 13, 15, 15, 14, 7, 2, 12, 0, 10, 6, 13, 1, 5, 10, 1, 8>>)))
    @@
    (("(Some(\"6164e20ac3de15cbe6873d15338ae39392784d729dee7a4530ca5135588ce24e\"), 5)140fc148a380d69b8753d296355d450a4c606dfa652482747ab694cd6ac239720af7ba66f9a27ed0e229221aada0cc88d5d6fd58f46f72eb626bd37b8e94efc8"
        :> <<1, 9, 4, 10, 13, 15, 1, 12, 10, 14, 0, 6, 15, 5, 10, 9, 5, 9, 8, 3, 10, 2, 9, 13, 6, 14, 8, 2, 4, 10, 10, 15, 7, 1, 1, 2, 15, 9, 10, 7, 4, 5, 14, 4, 4, 9, 4, 2, 0, 10, 6, 9, 11, 8, 0, 8, 7, 9, 1, 7, 2, 0, 13, 5>>)
    @@
    (("(Some(\"6164e20ac3de15cbe6873d15338ae39392784d729dee7a4530ca5135588ce24e\"), 5)140fc148a380d69b8753d296355d450a4c606dfa652482747ab694cd6ac239720af7ba66f9a27ed0e229221aada0cc88d5d6fd58f46f72eb626bd37b8e94efc80af7ba66f9a27ed0e229221aada0cc88d5d6fd58f46f72eb626bd37b8e94efc8"
        :> <<6, 5, 15, 0, 11, 0, 14, 10, 13, 10, 10, 5, 0, 3, 0, 11, 6, 15, 10, 0, 15, 1, 0, 13, 13, 2, 5, 4, 7, 3, 12, 3, 3, 9, 0, 3, 3, 6, 15, 15, 13, 8, 5, 0, 13, 8, 6, 5, 0, 10, 8, 11, 15, 5, 1, 9, 2, 12, 4, 5, 1, 2, 4, 14>>)
    @@
    ("(Some(\"6164e20ac3de15cbe6873d15338ae39392784d729dee7a4530ca5135588ce24e\"), 5)140fc148a380d69b8753d296355d450a4c606dfa652482747ab694cd6ac239720af7ba66f9a27ed0e229221aada0cc88d5d6fd58f46f72eb626bd37b8e94efc80f953d12a939fe4ef354fff77564841627136a6bf3667b256c4a5cb6768788da"
        :> <<11, 2, 0, 1, 8, 3, 8, 2, 13, 5, 10, 6, 8, 7, 14, 5, 3, 3, 5, 14, 10, 12, 3, 14, 15, 15, 15, 11, 6, 10, 0, 0, 2, 11, 12, 13, 9, 4, 0, 0, 0, 11, 1, 4, 12, 9, 8, 1, 0, 11, 11, 3, 15, 5, 10, 0, 0, 10, 4, 9, 6, 1, 8, 9>>))))
    @@
    ((("(Some(\"6164e20ac3de15cbe6873d15338ae39392784d729dee7a4530ca5135588ce24e\"), 5)140fc148a380d69b8753d296355d450a4c606dfa652482747ab694cd6ac239720af7ba66f9a27ed0e229221aada0cc88d5d6fd58f46f72eb626bd37b8e94efc8140fc148a380d69b8753d296355d450a4c606dfa652482747ab694cd6ac23972"
        :> <<1, 8, 14, 9, 1, 11, 7, 1, 4, 10, 0, 7, 12, 5, 7, 13, 4, 1, 15, 7, 7, 14, 6, 11, 1, 12, 12, 2, 6, 6, 5, 12, 2, 9, 6, 3, 2, 3, 2, 10, 15, 10, 15, 12, 3, 6, 3, 9, 4, 4, 15, 8, 12, 11, 13, 0, 3, 12, 9, 6, 0, 15, 1, 5>>)
    @@
    (("(Some(\"6164e20ac3de15cbe6873d15338ae39392784d729dee7a4530ca5135588ce24e\"), 5)140fc148a380d69b8753d296355d450a4c606dfa652482747ab694cd6ac239720af7ba66f9a27ed0e229221aada0cc88d5d6fd58f46f72eb626bd37b8e94efc87d3c95f98bd2b66af7c1d3a16cad13e01562539e02afc9695b86a5416092645f"
        :> <<1, 3, 2, 14, 5, 13, 7, 2, 1, 12, 14, 4, 11, 11, 5, 7, 15, 11, 1, 10, 8, 9, 11, 12, 6, 11, 2, 3, 15, 15, 9, 1, 1, 9, 11, 8, 0, 6, 11, 2, 12, 11, 2, 6, 13, 4, 1, 14, 13, 6, 11, 9, 14, 10, 8, 11, 3, 7, 6, 12, 6, 11, 8, 5>>)
    @@
    ("(Some(\"6164e20ac3de15cbe6873d15338ae39392784d729dee7a4530ca5135588ce24e\"), 5)140fc148a380d69b8753d296355d450a4c606dfa652482747ab694cd6ac239720f953d12a939fe4ef354fff77564841627136a6bf3667b256c4a5cb6768788da"
        :> <<3, 1, 13, 4, 1, 0, 9, 11, 5, 6, 13, 2, 9, 1, 12, 8, 13, 3, 0, 0, 9, 11, 4, 14, 1, 12, 3, 6, 2, 11, 10, 1, 11, 2, 6, 5, 10, 0, 6, 13, 14, 15, 9, 3, 10, 4, 1, 12, 15, 3, 10, 2, 3, 13, 8, 2, 4, 10, 13, 9, 8, 4, 0, 10>>)))
    @@
    ((("(Some(\"6164e20ac3de15cbe6873d15338ae39392784d729dee7a4530ca5135588ce24e\"), 5)140fc148a380d69b8753d296355d450a4c606dfa652482747ab694cd6ac239720f953d12a939fe4ef354fff77564841627136a6bf3667b256c4a5cb6768788da0af7ba66f9a27ed0e229221aada0cc88d5d6fd58f46f72eb626bd37b8e94efc8"
        :> <<9, 3, 14, 3, 15, 12, 8, 12, 10, 5, 6, 1, 14, 5, 4, 2, 9, 3, 4, 7, 0, 12, 5, 2, 6, 2, 2, 10, 4, 10, 8, 14, 12, 9, 2, 6, 10, 10, 1, 10, 9, 4, 3, 10, 9, 7, 4, 5, 9, 14, 5, 3, 6, 9, 6, 4, 8, 0, 3, 15, 3, 4, 9, 5>>)
    @@
    ("(Some(\"6164e20ac3de15cbe6873d15338ae39392784d729dee7a4530ca5135588ce24e\"), 5)140fc148a380d69b8753d296355d450a4c606dfa652482747ab694cd6ac239720f953d12a939fe4ef354fff77564841627136a6bf3667b256c4a5cb6768788da0f953d12a939fe4ef354fff77564841627136a6bf3667b256c4a5cb6768788da"
        :> <<1, 12, 8, 8, 9, 7, 3, 12, 7, 7, 9, 6, 3, 7, 1, 3, 13, 2, 14, 0, 15, 5, 15, 15, 15, 11, 4, 13, 6, 6, 5, 10, 11, 6, 3, 5, 12, 1, 3, 12, 2, 2, 15, 13, 7, 9, 11, 12, 3, 1, 2, 13, 11, 8, 12, 7, 10, 2, 11, 10, 3, 12, 15, 9>>))
    @@
    (("(Some(\"6164e20ac3de15cbe6873d15338ae39392784d729dee7a4530ca5135588ce24e\"), 5)140fc148a380d69b8753d296355d450a4c606dfa652482747ab694cd6ac239720f953d12a939fe4ef354fff77564841627136a6bf3667b256c4a5cb6768788da140fc148a380d69b8753d296355d450a4c606dfa652482747ab694cd6ac23972"
        :> <<14, 1, 4, 1, 15, 4, 9, 10, 14, 6, 10, 8, 5, 14, 8, 6, 6, 7, 0, 11, 12, 9, 5, 4, 11, 0, 0, 13, 2, 9, 11, 8, 5, 5, 4, 13, 9, 3, 6, 7, 12, 13, 1, 5, 15, 14, 1, 1, 15, 12, 13, 8, 1, 1, 13, 9, 12, 13, 5, 6, 14, 10, 10, 0>>)
    @@
    ("(Some(\"6164e20ac3de15cbe6873d15338ae39392784d729dee7a4530ca5135588ce24e\"), 5)140fc148a380d69b8753d296355d450a4c606dfa652482747ab694cd6ac239720f953d12a939fe4ef354fff77564841627136a6bf3667b256c4a5cb6768788da7d3c95f98bd2b66af7c1d3a16cad13e01562539e02afc9695b86a5416092645f"
        :> <<2, 7, 15, 4, 11, 4, 9, 5, 4, 8, 14, 4, 2, 0, 13, 2, 11, 13, 2, 13, 7, 4, 11, 15, 1, 9, 2, 15, 3, 9, 4, 14, 13, 14, 4, 3, 12, 8, 8, 13, 12, 10, 10, 8, 6, 3, 13, 14, 12, 8, 4, 8, 14, 13, 11, 12, 2, 0, 9, 9, 9, 1, 14, 14>>))))))
    @@
    ((((("(Some(\"6164e20ac3de15cbe6873d15338ae39392784d729dee7a4530ca5135588ce24e\"), 5)140fc148a380d69b8753d296355d450a4c606dfa652482747ab694cd6ac23972140fc148a380d69b8753d296355d450a4c606dfa652482747ab694cd6ac23972"
        :> <<12, 13, 0, 8, 8, 11, 13, 7, 13, 0, 14, 3, 7, 0, 6, 11, 13, 8, 13, 12, 13, 2, 11, 10, 14, 11, 4, 13, 9, 2, 15, 13, 14, 11, 0, 8, 14, 1, 10, 2, 8, 3, 3, 6, 14, 9, 3, 6, 13, 0, 3, 15, 6, 4, 6, 15, 9, 3, 3, 8, 5, 0, 11, 4>>)
    @@
    (("(Some(\"6164e20ac3de15cbe6873d15338ae39392784d729dee7a4530ca5135588ce24e\"), 5)140fc148a380d69b8753d296355d450a4c606dfa652482747ab694cd6ac23972140fc148a380d69b8753d296355d450a4c606dfa652482747ab694cd6ac239720af7ba66f9a27ed0e229221aada0cc88d5d6fd58f46f72eb626bd37b8e94efc8"
        :> <<9, 3, 4, 11, 9, 9, 10, 6, 14, 13, 11, 0, 13, 8, 3, 2, 2, 14, 11, 11, 11, 4, 0, 0, 5, 11, 2, 15, 10, 1, 3, 1, 13, 12, 15, 1, 3, 15, 8, 12, 15, 14, 1, 7, 13, 13, 1, 10, 9, 4, 14, 5, 8, 2, 14, 7, 3, 7, 1, 1, 15, 15, 11, 1>>)
    @@
    ("(Some(\"6164e20ac3de15cbe6873d15338ae39392784d729dee7a4530ca5135588ce24e\"), 5)140fc148a380d69b8753d296355d450a4c606dfa652482747ab694cd6ac23972140fc148a380d69b8753d296355d450a4c606dfa652482747ab694cd6ac239720f953d12a939fe4ef354fff77564841627136a6bf3667b256c4a5cb6768788da"
        :> <<4, 7, 14, 6, 15, 5, 0, 10, 9, 6, 0, 13, 2, 15, 6, 2, 8, 9, 13, 10, 8, 13, 14, 1, 9, 0, 9, 7, 13, 4, 13, 10, 13, 1, 2, 8, 7, 0, 5, 1, 14, 11, 3, 2, 11, 13, 3, 6, 10, 7, 6, 4, 7, 4, 8, 11, 2, 0, 13, 15, 12, 13, 14, 14>>)))
    @@
    (("(Some(\"6164e20ac3de15cbe6873d15338ae39392784d729dee7a4530ca5135588ce24e\"), 5)140fc148a380d69b8753d296355d450a4c606dfa652482747ab694cd6ac23972140fc148a380d69b8753d296355d450a4c606dfa652482747ab694cd6ac23972140fc148a380d69b8753d296355d450a4c606dfa652482747ab694cd6ac23972"
        :> <<1, 0, 9, 11, 0, 9, 7, 15, 13, 3, 13, 9, 8, 5, 5, 9, 8, 15, 10, 3, 1, 3, 10, 10, 0, 0, 2, 6, 3, 12, 4, 1, 7, 8, 1, 10, 4, 4, 0, 13, 0, 0, 5, 4, 4, 0, 6, 7, 13, 10, 8, 1, 13, 4, 5, 13, 3, 15, 6, 3, 2, 5, 9, 3>>)
    @@
    (("(Some(\"6164e20ac3de15cbe6873d15338ae39392784d729dee7a4530ca5135588ce24e\"), 5)140fc148a380d69b8753d296355d450a4c606dfa652482747ab694cd6ac23972140fc148a380d69b8753d296355d450a4c606dfa652482747ab694cd6ac239727d3c95f98bd2b66af7c1d3a16cad13e01562539e02afc9695b86a5416092645f"
        :> <<12, 7, 4, 8, 11, 5, 10, 0, 0, 10, 8, 12, 13, 7, 0, 2, 5, 10, 12, 0, 0, 3, 1, 4, 0, 4, 0, 13, 5, 4, 13, 4, 6, 1, 9, 9, 2, 10, 13, 4, 11, 9, 6, 3, 11, 14, 8, 4, 0, 15, 3, 0, 14, 15, 0, 10, 9, 0, 10, 0, 5, 7, 14, 15>>)
    @@
    ("(Some(\"6164e20ac3de15cbe6873d15338ae39392784d729dee7a4530ca5135588ce24e\"), 5)140fc148a380d69b8753d296355d450a4c606dfa652482747ab694cd6ac239727d3c95f98bd2b66af7c1d3a16cad13e01562539e02afc9695b86a5416092645f"
        :> <<15, 7, 0, 11, 10, 2, 12, 4, 13, 10, 13, 2, 9, 4, 0, 1, 2, 4, 5, 12, 6, 10, 9, 8, 9, 5, 4, 4, 6, 3, 9, 4, 8, 6, 10, 6, 4, 11, 15, 12, 8, 0, 13, 5, 11, 5, 15, 4, 15, 4, 1, 4, 3, 1, 7, 9, 3, 10, 2, 0, 2, 10, 3, 0>>))))
    @@
    ((("(Some(\"6164e20ac3de15cbe6873d15338ae39392784d729dee7a4530ca5135588ce24e\"), 5)140fc148a380d69b8753d296355d450a4c606dfa652482747ab694cd6ac239727d3c95f98bd2b66af7c1d3a16cad13e01562539e02afc9695b86a5416092645f0af7ba66f9a27ed0e229221aada0cc88d5d6fd58f46f72eb626bd37b8e94efc8"
        :> <<1, 10, 10, 3, 12, 13, 10, 1, 7, 2, 6, 14, 4, 15, 10, 15, 13, 14, 4, 14, 2, 4, 0, 11, 4, 2, 7, 8, 0, 7, 7, 15, 3, 15, 1, 9, 11, 2, 0, 6, 6, 11, 13, 1, 6, 7, 9, 13, 7, 0, 4, 11, 5, 0, 3, 12, 8, 5, 8, 13, 4, 0, 13, 12>>)
    @@
    (("(Some(\"6164e20ac3de15cbe6873d15338ae39392784d729dee7a4530ca5135588ce24e\"), 5)140fc148a380d69b8753d296355d450a4c606dfa652482747ab694cd6ac239727d3c95f98bd2b66af7c1d3a16cad13e01562539e02afc9695b86a5416092645f0f953d12a939fe4ef354fff77564841627136a6bf3667b256c4a5cb6768788da"
        :> <<4, 12, 4, 15, 14, 13, 5, 13, 6, 9, 3, 8, 9, 14, 13, 2, 3, 1, 13, 7, 6, 14, 5, 0, 9, 2, 4, 4, 5, 12, 10, 13, 15, 10, 12, 14, 8, 11, 8, 3, 8, 14, 13, 2, 1, 13, 12, 3, 10, 6, 11, 5, 8, 14, 9, 13, 3, 10, 4, 15, 9, 3, 8, 1>>)
    @@
    ("(Some(\"6164e20ac3de15cbe6873d15338ae39392784d729dee7a4530ca5135588ce24e\"), 5)140fc148a380d69b8753d296355d450a4c606dfa652482747ab694cd6ac239727d3c95f98bd2b66af7c1d3a16cad13e01562539e02afc9695b86a5416092645f140fc148a380d69b8753d296355d450a4c606dfa652482747ab694cd6ac23972"
        :> <<5, 8, 0, 3, 11, 5, 0, 3, 5, 5, 9, 12, 2, 12, 15, 3, 2, 14, 11, 8, 6, 12, 6, 11, 9, 15, 11, 1, 3, 9, 7, 3, 2, 9, 6, 9, 6, 12, 7, 13, 15, 3, 3, 11, 6, 4, 4, 1, 1, 12, 6, 9, 10, 4, 7, 1, 4, 13, 14, 7, 1, 10, 3, 12>>)))
    @@
    ((("(Some(\"6164e20ac3de15cbe6873d15338ae39392784d729dee7a4530ca5135588ce24e\"), 5)140fc148a380d69b8753d296355d450a4c606dfa652482747ab694cd6ac239727d3c95f98bd2b66af7c1d3a16cad13e01562539e02afc9695b86a5416092645f7d3c95f98bd2b66af7c1d3a16cad13e01562539e02afc9695b86a5416092645f"
        :> <<5, 11, 3, 14, 5, 0, 2, 1, 2, 5, 1, 4, 11, 1, 11, 7, 11, 15, 5, 11, 12, 13, 15, 2, 10, 15, 12, 9, 0, 0, 6, 8, 11, 4, 14, 1, 11, 12, 14, 2, 0, 10, 11, 3, 4, 0, 7, 4, 2, 12, 5, 13, 3, 9, 4, 12, 10, 0, 2, 5, 0, 0, 10, 11>>)
    @@
    ("(Some(\"6164e20ac3de15cbe6873d15338ae39392784d729dee7a4530ca5135588ce24e\"), 5)7d3c95f98bd2b66af7c1d3a16cad13e01562539e02afc9695b86a5416092645f"
        :> <<12, 0, 11, 2, 12, 7, 13, 0, 5, 4, 4, 3, 15, 10, 3, 2, 6, 14, 14, 5, 14, 7, 12, 13, 4, 4, 11, 8, 4, 2, 0, 13, 3, 2, 0, 15, 15, 3, 13, 1, 13, 4, 11, 8, 0, 11, 12, 8, 15, 7, 4, 3, 3, 7, 3, 0, 4, 15, 14, 12, 4, 1, 14, 12>>))
    @@
    (("(Some(\"6164e20ac3de15cbe6873d15338ae39392784d729dee7a4530ca5135588ce24e\"), 5)7d3c95f98bd2b66af7c1d3a16cad13e01562539e02afc9695b86a5416092645f0af7ba66f9a27ed0e229221aada0cc88d5d6fd58f46f72eb626bd37b8e94efc8"
        :> <<12, 15, 9, 8, 11, 9, 4, 10, 1, 3, 0, 14, 13, 6, 13, 10, 1, 11, 1, 8, 9, 0, 7, 5, 0, 10, 7, 6, 1, 10, 4, 15, 2, 0, 9, 13, 7, 6, 4, 2, 9, 13, 7, 7, 13, 15, 8, 2, 5, 7, 7, 2, 2, 10, 13, 15, 0, 7, 3, 0, 7, 7, 1, 14>>)
    @@
    ("(Some(\"6164e20ac3de15cbe6873d15338ae39392784d729dee7a4530ca5135588ce24e\"), 5)7d3c95f98bd2b66af7c1d3a16cad13e01562539e02afc9695b86a5416092645f0af7ba66f9a27ed0e229221aada0cc88d5d6fd58f46f72eb626bd37b8e94efc80af7ba66f9a27ed0e229221aada0cc88d5d6fd58f46f72eb626bd37b8e94efc8"
        :> <<3, 7, 14, 8, 3, 9, 14, 4, 5, 11, 14, 7, 4, 1, 13, 8, 3, 6, 15, 0, 7, 14, 10, 8, 8, 7, 6, 15, 8, 15, 12, 13, 0, 12, 6, 11, 1, 4, 14, 13, 7, 7, 8, 10, 5, 9, 9, 12, 4, 3, 14, 0, 15, 11, 13, 14, 5, 4, 1, 0, 12, 8, 6, 1>>)))))
    @@
    (((("(Some(\"6164e20ac3de15cbe6873d15338ae39392784d729dee7a4530ca5135588ce24e\"), 5)7d3c95f98bd2b66af7c1d3a16cad13e01562539e02afc9695b86a5416092645f0af7ba66f9a27ed0e229221aada0cc88d5d6fd58f46f72eb626bd37b8e94efc80f953d12a939fe4ef354fff77564841627136a6bf3667b256c4a5cb6768788da"
        :> <<9, 7, 10, 4, 7, 10, 5, 5, 6, 2, 5, 11, 9, 1, 1, 7, 6, 6, 12, 5, 11, 12, 8, 14, 12, 4, 14, 11, 12, 1, 3, 0, 13, 7, 8, 2, 1, 2, 15, 15, 10, 13, 8, 9, 7, 2, 2, 6, 10, 2, 8, 7, 2, 11, 7, 11, 12, 1, 4, 3, 15, 9, 0, 5>>)
    @@
    (("(Some(\"6164e20ac3de15cbe6873d15338ae39392784d729dee7a4530ca5135588ce24e\"), 5)7d3c95f98bd2b66af7c1d3a16cad13e01562539e02afc9695b86a5416092645f0af7ba66f9a27ed0e229221aada0cc88d5d6fd58f46f72eb626bd37b8e94efc8140fc148a380d69b8753d296355d450a4c606dfa652482747ab694cd6ac23972"
        :> <<11, 12, 8, 11, 6, 6, 12, 4, 9, 1, 3, 7, 12, 7, 14, 12, 9, 15, 12, 13, 3, 13, 10, 3, 8, 7, 5, 12, 12, 6, 2, 6, 7, 0, 0, 10, 12, 6, 3, 11, 14, 3, 3, 8, 11, 10, 10, 2, 2, 6, 6, 5, 13, 13, 7, 12, 11, 15, 10, 4, 7, 2, 15, 9>>)
    @@
    ("(Some(\"6164e20ac3de15cbe6873d15338ae39392784d729dee7a4530ca5135588ce24e\"), 5)7d3c95f98bd2b66af7c1d3a16cad13e01562539e02afc9695b86a5416092645f0af7ba66f9a27ed0e229221aada0cc88d5d6fd58f46f72eb626bd37b8e94efc87d3c95f98bd2b66af7c1d3a16cad13e01562539e02afc9695b86a5416092645f"
        :> <<14, 6, 8, 2, 13, 13, 14, 4, 4, 3, 7, 13, 14, 11, 7, 3, 15, 3, 6, 8, 12, 7, 11, 6, 15, 3, 1, 0, 14, 7, 10, 1, 10, 0, 10, 4, 15, 2, 12, 13, 8, 12, 13, 15, 12, 10, 13, 11, 12, 7, 2, 6, 6, 4, 2, 10, 0, 3, 0, 10, 6, 9, 10, 14>>)))
    @@
    (("(Some(\"6164e20ac3de15cbe6873d15338ae39392784d729dee7a4530ca5135588ce24e\"), 5)7d3c95f98bd2b66af7c1d3a16cad13e01562539e02afc9695b86a5416092645f0f953d12a939fe4ef354fff77564841627136a6bf3667b256c4a5cb6768788da"
        :> <<12, 13, 7, 2, 11, 5, 9, 3, 13, 12, 5, 14, 5, 12, 10, 2, 15, 15, 13, 5, 12, 14, 4, 3, 5, 4, 1, 13, 9, 9, 12, 0, 3, 2, 15, 15, 3, 0, 8, 1, 7, 14, 7, 10, 3, 5, 6, 4, 3, 6, 3, 5, 6, 1, 0, 4, 4, 9, 13, 4, 2, 3, 3, 3>>)
    @@
    (("(Some(\"6164e20ac3de15cbe6873d15338ae39392784d729dee7a4530ca5135588ce24e\"), 5)7d3c95f98bd2b66af7c1d3a16cad13e01562539e02afc9695b86a5416092645f0f953d12a939fe4ef354fff77564841627136a6bf3667b256c4a5cb6768788da0af7ba66f9a27ed0e229221aada0cc88d5d6fd58f46f72eb626bd37b8e94efc8"
        :> <<10, 2, 8, 6, 9, 5, 10, 5, 12, 3, 8, 11, 0, 6, 15, 7, 13, 9, 15, 13, 13, 4, 10, 6, 11, 9, 8, 5, 15, 15, 14, 10, 9, 13, 0, 0, 0, 3, 5, 3, 10, 8, 2, 5, 8, 4, 1, 12, 1, 8, 2, 5, 8, 4, 14, 10, 12, 1, 5, 8, 6, 6, 13, 6>>)
    @@
    ("(Some(\"6164e20ac3de15cbe6873d15338ae39392784d729dee7a4530ca5135588ce24e\"), 5)7d3c95f98bd2b66af7c1d3a16cad13e01562539e02afc9695b86a5416092645f0f953d12a939fe4ef354fff77564841627136a6bf3667b256c4a5cb6768788da0f953d12a939fe4ef354fff77564841627136a6bf3667b256c4a5cb6768788da"
        :> <<1, 3, 7, 12, 14, 13, 12, 1, 0, 0, 4, 14, 0, 14, 12, 12, 0, 15, 10, 3, 4, 7, 12, 10, 10, 5, 0, 0, 10, 14, 12, 2, 4, 15, 1, 13, 8, 4, 0, 11, 9, 4, 15, 3, 2, 5, 7, 6, 15, 12, 5, 8, 6, 9, 5, 2, 1, 13, 0, 2, 4, 8, 2, 12>>))))
    @@
    ((("(Some(\"6164e20ac3de15cbe6873d15338ae39392784d729dee7a4530ca5135588ce24e\"), 5)7d3c95f98bd2b66af7c1d3a16cad13e01562539e02afc9695b86a5416092645f0f953d12a939fe4ef354fff77564841627136a6bf3667b256c4a5cb6768788da140fc148a380d69b8753d296355d450a4c606dfa652482747ab694cd6ac23972"
        :> <<1, 11, 6, 4, 2, 11, 15, 10, 10, 14, 15, 8, 3, 8, 5, 10, 0, 8, 8, 4, 10, 4, 14, 11, 7, 5, 7, 1, 15, 8, 13, 4, 5, 2, 14, 5, 1, 3, 7, 11, 13, 2, 5, 9, 7, 3, 12, 6, 6, 7, 7, 12, 10, 0, 14, 9, 5, 14, 4, 0, 9, 13, 8, 5>>)
    @@
    (("(Some(\"6164e20ac3de15cbe6873d15338ae39392784d729dee7a4530ca5135588ce24e\"), 5)7d3c95f98bd2b66af7c1d3a16cad13e01562539e02afc9695b86a5416092645f0f953d12a939fe4ef354fff77564841627136a6bf3667b256c4a5cb6768788da7d3c95f98bd2b66af7c1d3a16cad13e01562539e02afc9695b86a5416092645f"
        :> <<15, 1, 0, 12, 13, 14, 0, 4, 15, 5, 15, 4, 1, 1, 7, 14, 4, 9, 11, 0, 15, 11, 13, 15, 10, 6, 6, 5, 11, 6, 10, 7, 11, 13, 12, 11, 6, 12, 13, 6, 14, 6, 12, 11, 3, 9, 0, 14, 10, 12, 3, 6, 14, 6, 9, 4, 11, 7, 2, 1, 1, 4, 12, 7>>)
    @@
    ("(Some(\"6164e20ac3de15cbe6873d15338ae39392784d729dee7a4530ca5135588ce24e\"), 5)7d3c95f98bd2b66af7c1d3a16cad13e01562539e02afc9695b86a5416092645f140fc148a380d69b8753d296355d450a4c606dfa652482747ab694cd6ac23972"
        :> <<2, 15, 8, 3, 14, 7, 8, 3, 10, 11, 9, 2, 13, 4, 13, 8, 15, 3, 8, 2, 3, 8, 5, 10, 1, 11, 15, 1, 9, 13, 8, 6, 12, 4, 0, 8, 7, 11, 9, 2, 15, 3, 3, 12, 2, 15, 14, 13, 3, 6, 0, 15, 6, 2, 1, 4, 10, 13, 2, 0, 8, 14, 6, 7>>)))
    @@
    ((("(Some(\"6164e20ac3de15cbe6873d15338ae39392784d729dee7a4530ca5135588ce24e\"), 5)7d3c95f98bd2b66af7c1d3a16cad13e01562539e02afc9695b86a5416092645f140fc148a380d69b8753d296355d450a4c606dfa652482747ab694cd6ac239720af7ba66f9a27ed0e229221aada0cc88d5d6fd58f46f72eb626bd37b8e94efc8"
        :> <<2, 10, 2, 9, 11, 12, 9, 3, 7, 2, 15, 13, 1, 13, 0, 5, 13, 6, 9, 8, 8, 3, 10, 14, 2, 0, 6, 10, 9, 8, 1, 4, 14, 4, 7, 14, 11, 10, 15, 0, 12, 3, 4, 6, 2, 8, 1, 5, 13, 10, 0, 11, 9, 11, 14, 1, 0, 0, 11, 13, 10, 0, 6, 2>>)
    @@
    ("(Some(\"6164e20ac3de15cbe6873d15338ae39392784d729dee7a4530ca5135588ce24e\"), 5)7d3c95f98bd2b66af7c1d3a16cad13e01562539e02afc9695b86a5416092645f140fc148a380d69b8753d296355d450a4c606dfa652482747ab694cd6ac239720f953d12a939fe4ef354fff77564841627136a6bf3667b256c4a5cb6768788da"
        :> <<1, 10, 11, 7, 10, 13, 9, 10, 11, 7, 12, 0, 9, 11, 9, 5, 8, 3, 10, 3, 12, 8, 12, 8, 1, 9, 6, 14, 3, 4, 11, 3, 11, 13, 13, 15, 3, 15, 2, 9, 8, 4, 0, 13, 3, 10, 4, 4, 5, 15, 11, 10, 4, 9, 14, 5, 7, 11, 5, 10, 9, 3, 6, 9>>))
    @@
    (("(Some(\"6164e20ac3de15cbe6873d15338ae39392784d729dee7a4530ca5135588ce24e\"), 5)7d3c95f98bd2b66af7c1d3a16cad13e01562539e02afc9695b86a5416092645f140fc148a380d69b8753d296355d450a4c606dfa652482747ab694cd6ac23972140fc148a380d69b8753d296355d450a4c606dfa652482747ab694cd6ac23972"
        :> <<0, 0, 5, 10, 1, 4, 2, 2, 1, 14, 1, 14, 0, 6, 10, 4, 5, 12, 11, 3, 0, 15, 11, 4, 2, 10, 8, 2, 14, 0, 6, 5, 3, 5, 6, 3, 12, 7, 6, 11, 10, 6, 6, 14, 5, 14, 9, 1, 7, 10, 9, 9, 8, 15, 5, 15, 2, 0, 13, 11, 7, 1, 7, 14>>)
    @@
    ("(Some(\"6164e20ac3de15cbe6873d15338ae39392784d729dee7a4530ca5135588ce24e\"), 5)7d3c95f98bd2b66af7c1d3a16cad13e01562539e02afc9695b86a5416092645f140fc148a380d69b8753d296355d450a4c606dfa652482747ab694cd6ac239727d3c95f98bd2b66af7c1d3a16cad13e01562539e02afc9695b86a5416092645f"
        :> <<13, 14, 11, 8, 7, 6, 0, 13, 0, 10, 12, 1, 1, 3, 8, 7, 2, 11, 14, 1, 0, 4, 10, 9, 15, 1, 9, 15, 2, 12, 14, 12, 7, 3, 0, 9, 2, 7, 10, 14, 9, 3, 10, 1, 8, 9, 6, 15, 12, 0, 7, 15, 9, 13, 5, 9, 8, 2, 9, 11, 9, 9, 4, 2>>))))))))
    @@
    ((((((("(Some(\"6164e20ac3de15cbe6873d15338ae39392784d729dee7a4530ca5135588ce24e\"), 5)7d3c95f98bd2b66af7c1d3a16cad13e01562539e02afc9695b86a5416092645f7d3c95f98bd2b66af7c1d3a16cad13e01562539e02afc9695b86a5416092645f"
        :> <<0, 8, 6, 10, 7, 1, 4, 4, 13, 7, 14, 12, 2, 3, 3, 15, 4, 5, 14, 9, 12, 4, 15, 11, 10, 9, 6, 10, 12, 13, 5, 9, 12, 4, 15, 6, 10, 12, 6, 8, 0, 5, 4, 1, 15, 3, 1, 6, 11, 7, 11, 2, 7, 10, 14, 9, 4, 2, 7, 11, 7, 7, 13, 6>>)
    @@
    (("(Some(\"6164e20ac3de15cbe6873d15338ae39392784d729dee7a4530ca5135588ce24e\"), 5)7d3c95f98bd2b66af7c1d3a16cad13e01562539e02afc9695b86a5416092645f7d3c95f98bd2b66af7c1d3a16cad13e01562539e02afc9695b86a5416092645f0af7ba66f9a27ed0e229221aada0cc88d5d6fd58f46f72eb626bd37b8e94efc8"
        :> <<3, 15, 7, 7, 0, 12, 2, 6, 15, 6, 11, 12, 15, 7, 2, 10, 8, 6, 4, 11, 8, 8, 1, 8, 1, 13, 7, 12, 7, 13, 3, 0, 0, 0, 4, 15, 1, 2, 13, 13, 5, 12, 7, 7, 14, 3, 13, 8, 7, 4, 14, 15, 12, 5, 10, 10, 6, 8, 2, 6, 14, 13, 12, 15>>)
    @@
    ("(Some(\"6164e20ac3de15cbe6873d15338ae39392784d729dee7a4530ca5135588ce24e\"), 5)7d3c95f98bd2b66af7c1d3a16cad13e01562539e02afc9695b86a5416092645f7d3c95f98bd2b66af7c1d3a16cad13e01562539e02afc9695b86a5416092645f0f953d12a939fe4ef354fff77564841627136a6bf3667b256c4a5cb6768788da"
        :> <<1, 7, 2, 7, 12, 5, 3, 11, 10, 0, 15, 8, 4, 1, 3, 7, 0, 6, 4, 6, 11, 4, 2, 14, 0, 2, 11, 13, 9, 9, 6, 4, 1, 0, 3, 3, 7, 13, 1, 11, 14, 5, 3, 10, 3, 12, 13, 14, 4, 6, 12, 12, 4, 6, 7, 13, 8, 9, 0, 1, 15, 13, 8, 13>>)))
    @@
    (("(Some(\"6164e20ac3de15cbe6873d15338ae39392784d729dee7a4530ca5135588ce24e\"), 5)7d3c95f98bd2b66af7c1d3a16cad13e01562539e02afc9695b86a5416092645f7d3c95f98bd2b66af7c1d3a16cad13e01562539e02afc9695b86a5416092645f140fc148a380d69b8753d296355d450a4c606dfa652482747ab694cd6ac23972"
        :> <<4, 0, 10, 8, 9, 6, 10, 11, 4, 12, 14, 3, 8, 1, 14, 2, 13, 14, 5, 11, 10, 14, 9, 0, 4, 8, 8, 13, 11, 4, 13, 8, 3, 11, 8, 5, 12, 8, 13, 6, 0, 14, 11, 13, 10, 6, 9, 6, 6, 15, 2, 5, 12, 9, 4, 11, 1, 7, 0, 5, 9, 6, 2, 6>>)
    @@
    (("(Some(\"6164e20ac3de15cbe6873d15338ae39392784d729dee7a4530ca5135588ce24e\"), 5)7d3c95f98bd2b66af7c1d3a16cad13e01562539e02afc9695b86a5416092645f7d3c95f98bd2b66af7c1d3a16cad13e01562539e02afc9695b86a5416092645f7d3c95f98bd2b66af7c1d3a16cad13e01562539e02afc9695b86a5416092645f"
        :> <<7, 10, 0, 10, 15, 11, 9, 0, 4, 5, 10, 12, 4, 4, 12, 7, 4, 14, 0, 4, 2, 9, 15, 0, 11, 5, 13, 8, 6, 8, 2, 10, 13, 0, 6, 10, 7, 12, 8, 3, 13, 14, 7, 1, 8, 14, 13, 1, 12, 3, 10, 10, 13, 8, 10, 1, 8, 3, 13, 0, 0, 1, 14, 7>>)
    @@
    ("(Some(\"6164e20ac3de15cbe6873d15338ae39392784d729dee7a4530ca5135588ce24e\"), 6)"
        :> <<13, 2, 1, 10, 4, 1, 7, 2, 4, 3, 10, 5, 2, 15, 2, 12, 2, 7, 11, 4, 3, 11, 14, 5, 7, 0, 15, 4, 8, 13, 2, 6, 1, 15, 1, 3, 2, 3, 1, 5, 15, 15, 2, 15, 8, 0, 3, 9, 10, 3, 6, 3, 10, 9, 11, 8, 10, 10, 1, 13, 4, 15, 0, 4>>))))
    @@
    ((("(Some(\"6164e20ac3de15cbe6873d15338ae39392784d729dee7a4530ca5135588ce24e\"), 6)0af7ba66f9a27ed0e229221aada0cc88d5d6fd58f46f72eb626bd37b8e94efc8"
        :> <<12, 11, 12, 3, 13, 2, 6, 11, 11, 8, 6, 1, 6, 3, 10, 12, 2, 8, 0, 13, 2, 15, 2, 3, 7, 15, 4, 10, 12, 1, 8, 14, 8, 6, 5, 12, 4, 3, 10, 14, 4, 5, 0, 13, 5, 10, 12, 2, 10, 9, 9, 8, 9, 1, 9, 6, 7, 11, 1, 0, 10, 15, 12, 5>>)
    @@
    (("(Some(\"6164e20ac3de15cbe6873d15338ae39392784d729dee7a4530ca5135588ce24e\"), 6)0af7ba66f9a27ed0e229221aada0cc88d5d6fd58f46f72eb626bd37b8e94efc80af7ba66f9a27ed0e229221aada0cc88d5d6fd58f46f72eb626bd37b8e94efc8"
        :> <<15, 3, 0, 4, 2, 13, 2, 9, 10, 14, 15, 12, 13, 0, 1, 13, 11, 5, 12, 6, 6, 14, 15, 13, 12, 2, 3, 14, 7, 14, 12, 4, 3, 7, 2, 11, 13, 14, 15, 2, 7, 0, 2, 11, 0, 13, 6, 13, 7, 15, 3, 3, 10, 0, 1, 4, 4, 1, 15, 7, 4, 9, 13, 1>>)
    @@
    ("(Some(\"6164e20ac3de15cbe6873d15338ae39392784d729dee7a4530ca5135588ce24e\"), 6)0af7ba66f9a27ed0e229221aada0cc88d5d6fd58f46f72eb626bd37b8e94efc80af7ba66f9a27ed0e229221aada0cc88d5d6fd58f46f72eb626bd37b8e94efc80af7ba66f9a27ed0e229221aada0cc88d5d6fd58f46f72eb626bd37b8e94efc8"
        :> <<1, 15, 5, 3, 13, 3, 4, 6, 9, 13, 4, 6, 14, 9, 10, 5, 9, 9, 5, 5, 4, 3, 14, 1, 14, 2, 12, 11, 12, 9, 3, 5, 15, 15, 6, 13, 12, 15, 11, 13, 15, 11, 11, 14, 8, 9, 6, 3, 1, 5, 2, 15, 11, 6, 15, 6, 3, 15, 6, 9, 8, 4, 3, 11>>)))
    @@
    ((("(Some(\"6164e20ac3de15cbe6873d15338ae39392784d729dee7a4530ca5135588ce24e\"), 6)0af7ba66f9a27ed0e229221aada0cc88d5d6fd58f46f72eb626bd37b8e94efc80af7ba66f9a27ed0e229221aada0cc88d5d6fd58f46f72eb626bd37b8e94efc80f953d12a939fe4ef354fff77564841627136a6bf3667b256c4a5cb6768788da"
        :> <<2, 4, 0, 2, 1, 6, 7, 9, 6, 7, 3, 10, 0, 4, 2, 15, 12, 7, 1, 2, 7, 5, 15, 14, 13, 2, 10, 0, 5, 6, 7, 14, 2, 8, 6, 14, 12, 15, 12, 4, 11, 12, 11, 8, 13, 15, 7, 13, 15, 8, 11, 3, 6, 3, 9, 9, 0, 8, 6, 14, 7, 11, 9, 3>>)
    @@
    ("(Some(\"6164e20ac3de15cbe6873d15338ae39392784d729dee7a4530ca5135588ce24e\"), 6)0af7ba66f9a27ed0e229221aada0cc88d5d6fd58f46f72eb626bd37b8e94efc80af7ba66f9a27ed0e229221aada0cc88d5d6fd58f46f72eb626bd37b8e94efc8140fc148a380d69b8753d296355d450a4c606dfa652482747ab694cd6ac23972"
        :> <<0, 3, 14, 7, 15, 8, 10, 11, 11, 4, 11, 14, 0, 7, 6, 10, 11, 1, 12, 13, 14, 11, 0, 8, 10, 8, 15, 14, 5, 0, 15, 4, 6, 6, 7, 5, 0, 3, 4, 14, 1, 13, 2, 3, 15, 2, 14, 0, 13, 0, 7, 9, 14, 5, 8, 1, 6, 7, 7, 14, 6, 13, 0, 14>>))
    @@
    (("(Some(\"6164e20ac3de15cbe6873d15338ae39392784d729dee7a4530ca5135588ce24e\"), 6)0af7ba66f9a27ed0e229221aada0cc88d5d6fd58f46f72eb626bd37b8e94efc80af7ba66f9a27ed0e229221aada0cc88d5d6fd58f46f72eb626bd37b8e94efc87d3c95f98bd2b66af7c1d3a16cad13e01562539e02afc9695b86a5416092645f"
        :> <<12, 15, 13, 4, 1, 7, 14, 2, 15, 14, 1, 4, 4, 9, 6, 15, 2, 5, 8, 2, 10, 12, 2, 0, 0, 14, 5, 13, 3, 8, 6, 2, 4, 13, 2, 13, 1, 2, 0, 10, 13, 13, 14, 0, 7, 12, 14, 8, 5, 9, 6, 4, 14, 1, 7, 12, 4, 7, 6, 13, 3, 3, 8, 9>>)
    @@
    ("(Some(\"6164e20ac3de15cbe6873d15338ae39392784d729dee7a4530ca5135588ce24e\"), 6)0af7ba66f9a27ed0e229221aada0cc88d5d6fd58f46f72eb626bd37b8e94efc80f953d12a939fe4ef354fff77564841627136a6bf3667b256c4a5cb6768788da"
        :> <<2, 4, 14, 8, 11, 0, 10, 3, 2, 4, 10, 11, 11, 6, 3, 14, 14, 6, 7, 6, 8, 12, 13, 9, 9, 4, 13, 15, 6, 4, 13, 4, 12, 14, 15, 5, 4, 0, 6, 14, 7, 14, 2, 15, 4, 11, 14, 10, 7, 9, 1, 0, 1, 7, 7, 9, 7, 15, 4, 3, 6, 0, 6, 10>>)))))
    @@
    (((("(Some(\"6164e20ac3de15cbe6873d15338ae39392784d729dee7a4530ca5135588ce24e\"), 6)0af7ba66f9a27ed0e229221aada0cc88d5d6fd58f46f72eb626bd37b8e94efc80f953d12a939fe4ef354fff77564841627136a6bf3667b256c4a5cb6768788da0af7ba66f9a27ed0e229221aada0cc88d5d6fd58f46f72eb626bd37b8e94efc8"
        :> <<15, 8, 6, 10, 4, 4, 12, 0, 15, 5, 12, 15, 12, 6, 6, 15, 6, 15, 4, 0, 0, 2, 1, 3, 0, 12, 0, 11, 14, 10, 13, 14, 8, 0, 1, 9, 2, 15, 13, 11, 15, 5, 4, 15, 5, 6, 8, 15, 6, 13, 3, 0, 7, 9, 8, 0, 14, 5, 5, 7, 0, 3, 3, 1>>)
    @@
    (("(Some(\"6164e20ac3de15cbe6873d15338ae39392784d729dee7a4530ca5135588ce24e\"), 6)0af7ba66f9a27ed0e229221aada0cc88d5d6fd58f46f72eb626bd37b8e94efc80f953d12a939fe4ef354fff77564841627136a6bf3667b256c4a5cb6768788da0f953d12a939fe4ef354fff77564841627136a6bf3667b256c4a5cb6768788da"
        :> <<9, 4, 8, 3, 13, 14, 6, 14, 5, 7, 11, 5, 6, 7, 6, 10, 9, 13, 11, 6, 13, 14, 4, 3, 1, 7, 13, 11, 7, 2, 8, 8, 7, 4, 15, 14, 5, 2, 10, 11, 10, 15, 4, 7, 8, 3, 1, 8, 9, 13, 9, 5, 13, 15, 10, 10, 13, 5, 4, 15, 4, 13, 11, 15>>)
    @@
    ("(Some(\"6164e20ac3de15cbe6873d15338ae39392784d729dee7a4530ca5135588ce24e\"), 6)0af7ba66f9a27ed0e229221aada0cc88d5d6fd58f46f72eb626bd37b8e94efc80f953d12a939fe4ef354fff77564841627136a6bf3667b256c4a5cb6768788da140fc148a380d69b8753d296355d450a4c606dfa652482747ab694cd6ac23972"
        :> <<13, 15, 9, 7, 3, 12, 13, 15, 10, 11, 2, 15, 15, 8, 0, 12, 3, 9, 4, 8, 9, 11, 5, 4, 0, 10, 1, 0, 9, 5, 14, 3, 14, 2, 10, 10, 1, 3, 0, 12, 3, 13, 15, 1, 8, 12, 2, 11, 10, 11, 3, 8, 4, 7, 7, 12, 14, 11, 10, 4, 7, 4, 5, 5>>)))
    @@
    (("(Some(\"6164e20ac3de15cbe6873d15338ae39392784d729dee7a4530ca5135588ce24e\"), 6)0af7ba66f9a27ed0e229221aada0cc88d5d6fd58f46f72eb626bd37b8e94efc80f953d12a939fe4ef354fff77564841627136a6bf3667b256c4a5cb6768788da7d3c95f98bd2b66af7c1d3a16cad13e01562539e02afc9695b86a5416092645f"
        :> <<13, 10, 8, 5, 0, 6, 3, 14, 2, 1, 14, 13, 10, 6, 4, 14, 14, 0, 6, 7, 3, 2, 2, 11, 7, 14, 10, 2, 8, 1, 9, 2, 12, 5, 11, 12, 11, 7, 10, 15, 1, 9, 13, 11, 4, 15, 10, 8, 2, 14, 7, 8, 3, 13, 6, 2, 11, 10, 14, 14, 14, 2, 4, 12>>)
    @@
    (("(Some(\"6164e20ac3de15cbe6873d15338ae39392784d729dee7a4530ca5135588ce24e\"), 6)0af7ba66f9a27ed0e229221aada0cc88d5d6fd58f46f72eb626bd37b8e94efc8140fc148a380d69b8753d296355d450a4c606dfa652482747ab694cd6ac23972"
        :> <<5, 10, 4, 11, 8, 14, 6, 4, 3, 14, 3, 2, 0, 2, 8, 5, 0, 8, 5, 6, 0, 2, 8, 14, 8, 4, 15, 11, 7, 7, 4, 0, 8, 15, 7, 8, 5, 0, 8, 2, 8, 2, 0, 0, 4, 15, 14, 9, 10, 1, 4, 14, 0, 3, 3, 2, 3, 6, 1, 4, 12, 12, 1, 15>>)
    @@
    ("(Some(\"6164e20ac3de15cbe6873d15338ae39392784d729dee7a4530ca5135588ce24e\"), 6)0af7ba66f9a27ed0e229221aada0cc88d5d6fd58f46f72eb626bd37b8e94efc8140fc148a380d69b8753d296355d450a4c606dfa652482747ab694cd6ac239720af7ba66f9a27ed0e229221aada0cc88d5d6fd58f46f72eb626bd37b8e94efc8"
        :> <<11, 6, 12, 8, 1, 0, 6, 0, 6, 3, 9, 10, 12, 12, 12, 13, 8, 10, 4, 1, 5, 0, 13, 1, 13, 11, 9, 1, 0, 11, 2, 0, 6, 2, 5, 8, 2, 7, 8, 3, 14, 0, 12, 10, 0, 3, 3, 14, 1, 2, 13, 8, 1, 10, 0, 7, 8, 1, 2, 0, 1, 1, 3, 12>>))))
    @@
    ((("(Some(\"6164e20ac3de15cbe6873d15338ae39392784d729dee7a4530ca5135588ce24e\"), 6)0af7ba66f9a27ed0e229221aada0cc88d5d6fd58f46f72eb626bd37b8e94efc8140fc148a380d69b8753d296355d450a4c606dfa652482747ab694cd6ac239720f953d12a939fe4ef354fff77564841627136a6bf3667b256c4a5cb6768788da"
        :> <<7, 2, 4, 1, 7, 12, 3, 12, 13, 11, 15, 13, 11, 14, 5, 12, 1, 6, 9, 14, 0, 14, 12, 7, 15, 3, 2, 4, 15, 0, 9, 10, 8, 4, 7, 4, 6, 11, 11, 5, 13, 3, 2, 3, 0, 7, 8, 8, 0, 10, 4, 8, 12, 3, 7, 4, 4, 11, 11, 9, 11, 3, 15, 8>>)
    @@
    (("(Some(\"6164e20ac3de15cbe6873d15338ae39392784d729dee7a4530ca5135588ce24e\"), 6)0af7ba66f9a27ed0e229221aada0cc88d5d6fd58f46f72eb626bd37b8e94efc8140fc148a380d69b8753d296355d450a4c606dfa652482747ab694cd6ac23972140fc148a380d69b8753d296355d450a4c606dfa652482747ab694cd6ac23972"
        :> <<4, 1, 9, 14, 11, 2, 2, 13, 14, 13, 9, 2, 14, 13, 1, 9, 1, 15, 4, 10, 15, 13, 0, 4, 12, 2, 15, 7, 8, 1, 5, 3, 14, 15, 8, 2, 13, 5, 5, 1, 2, 14, 5, 7, 6, 1, 3, 1, 0, 10, 8, 10, 3, 5, 13, 15, 4, 9, 15, 12, 13, 9, 1, 14>>)
    @@
    ("(Some(\"6164e20ac3de15cbe6873d15338ae39392784d729dee7a4530ca5135588ce24e\"), 6)0af7ba66f9a27ed0e229221aada0cc88d5d6fd58f46f72eb626bd37b8e94efc8140fc148a380d69b8753d296355d450a4c606dfa652482747ab694cd6ac239727d3c95f98bd2b66af7c1d3a16cad13e01562539e02afc9695b86a5416092645f"
        :> <<4, 9, 2, 15, 0, 13, 4, 1, 0, 10, 4, 13, 7, 15, 7, 1, 14, 14, 14, 13, 15, 14, 1, 8, 7, 9, 6, 9, 3, 9, 12, 15, 6, 1, 1, 12, 11, 10, 10, 15, 0, 0, 10, 15, 14, 15, 2, 1, 10, 14, 9, 1, 1, 3, 5, 2, 12, 8, 4, 3, 8, 0, 11, 2>>)))
    @@
    ((("(Some(\"6164e20ac3de15cbe6873d15338ae39392784d729dee7a4530ca5135588ce24e\"), 6)0af7ba66f9a27ed0e229221aada0cc88d5d6fd58f46f72eb626bd37b8e94efc87d3c95f98bd2b66af7c1d3a16cad13e01562539e02afc9695b86a5416092645f"
        :> <<13, 9, 3, 0, 2, 5, 12, 3, 0, 11, 5, 14, 2, 14, 6, 5, 3, 1, 4, 4, 5, 5, 9, 8, 6, 4, 7, 4, 11, 1, 2, 3, 12, 13, 2, 5, 12, 15, 5, 13, 12, 6, 15, 10, 9, 8, 11, 11, 1, 11, 11, 5, 5, 8, 9, 9, 13, 2, 2, 13, 0, 5, 9, 13>>)
    @@
    ("(Some(\"6164e20ac3de15cbe6873d15338ae39392784d729dee7a4530ca5135588ce24e\"), 6)0af7ba66f9a27ed0e229221aada0cc88d5d6fd58f46f72eb626bd37b8e94efc87d3c95f98bd2b66af7c1d3a16cad13e01562539e02afc9695b86a5416092645f0af7ba66f9a27ed0e229221aada0cc88d5d6fd58f46f72eb626bd37b8e94efc8"
        :> <<0, 5, 11, 4, 7, 6, 13, 8, 7, 12, 8, 6, 15, 6, 8, 9, 15, 4, 7, 2, 12, 2, 8, 4, 0, 11, 3, 0, 14, 8, 10, 11, 11, 8, 15, 10, 4, 0, 10, 2, 8, 9, 7, 0, 0, 9, 15, 8, 0, 11, 1, 9, 5, 15, 4, 4, 7, 6, 0, 14, 9, 1, 3, 5>>))
    @@
    (("(Some(\"6164e20ac3de15cbe6873d15338ae39392784d729dee7a4530ca5135588ce24e\"), 6)0af7ba66f9a27ed0e229221aada0cc88d5d6fd58f46f72eb626bd37b8e94efc87d3c95f98bd2b66af7c1d3a16cad13e01562539e02afc9695b86a5416092645f0f953d12a939fe4ef354fff77564841627136a6bf3667b256c4a5cb6768788da"
        :> <<14, 11, 13, 4, 11, 7, 2, 11, 2, 7, 4, 3, 14, 11, 0, 15, 5, 2, 1, 4, 9, 5, 3, 3, 3, 3, 10, 10, 13, 0, 7, 4, 7, 7, 15, 8, 12, 8, 10, 9, 12, 2, 9, 15, 11, 9, 7, 11, 6, 8, 8, 15, 13, 3, 6, 1, 4, 12, 9, 2, 9, 15, 13, 0>>)
    @@
    ("(Some(\"6164e20ac3de15cbe6873d15338ae39392784d729dee7a4530ca5135588ce24e\"), 6)0af7ba66f9a27ed0e229221aada0cc88d5d6fd58f46f72eb626bd37b8e94efc87d3c95f98bd2b66af7c1d3a16cad13e01562539e02afc9695b86a5416092645f140fc148a380d69b8753d296355d450a4c606dfa652482747ab694cd6ac23972"
        :> <<0, 15, 11, 10, 5, 0, 6, 3, 1, 4, 6, 11, 8, 3, 14, 7, 6, 14, 13, 3, 8, 4, 1, 0, 3, 7, 13, 14, 13, 0, 7, 9, 9, 9, 12, 4, 13, 5, 5, 11, 14, 9, 15, 13, 10, 3, 12, 11, 1, 13, 7, 7, 4, 3, 5, 15, 1, 6, 3, 4, 14, 1, 3, 11>>))))))
    @@
    ((((("(Some(\"6164e20ac3de15cbe6873d15338ae39392784d729dee7a4530ca5135588ce24e\"), 6)0af7ba66f9a27ed0e229221aada0cc88d5d6fd58f46f72eb626bd37b8e94efc87d3c95f98bd2b66af7c1d3a16cad13e01562539e02afc9695b86a5416092645f7d3c95f98bd2b66af7c1d3a16cad13e01562539e02afc9695b86a5416092645f"
        :> <<3, 4, 15, 3, 12, 15, 9, 6, 8, 2, 2, 8, 6, 3, 9, 14, 7, 12, 10, 10, 7, 3, 14, 0, 4, 4, 0, 3, 0, 2, 12, 8, 0, 14, 7, 1, 4, 9, 0, 0, 2, 12, 7, 14, 6, 7, 14, 13, 0, 13, 8, 14, 2, 7, 1, 11, 7, 2, 8, 14, 3, 8, 10, 14>>)
    @@
    (("(Some(\"6164e20ac3de15cbe6873d15338ae39392784d729dee7a4530ca5135588ce24e\"), 6)0f953d12a939fe4ef354fff77564841627136a6bf3667b256c4a5cb6768788da"
        :> <<5, 5, 6, 5, 9, 12, 4, 5, 12, 11, 2, 4, 2, 12, 13, 12, 0, 11, 6, 1, 11, 15, 9, 14, 2, 7, 0, 4, 13, 14, 4, 11, 8, 0, 12, 13, 5, 14, 1, 14, 5, 4, 7, 8, 6, 9, 14, 8, 15, 15, 9, 2, 11, 2, 6, 6, 6, 3, 7, 12, 9, 1, 6, 7>>)
    @@
    ("(Some(\"6164e20ac3de15cbe6873d15338ae39392784d729dee7a4530ca5135588ce24e\"), 6)0f953d12a939fe4ef354fff77564841627136a6bf3667b256c4a5cb6768788da0af7ba66f9a27ed0e229221aada0cc88d5d6fd58f46f72eb626bd37b8e94efc8"
        :> <<5, 6, 8, 3, 15, 2, 0, 13, 7, 10, 11, 8, 8, 11, 11, 1, 11, 8, 11, 3, 13, 15, 8, 7, 1, 3, 6, 0, 15, 15, 11, 10, 0, 7, 13, 3, 2, 1, 5, 12, 1, 13, 0, 15, 11, 15, 6, 7, 5, 8, 12, 3, 10, 10, 9, 0, 2, 1, 13, 11, 9, 11, 8, 5>>)))
    @@
    (("(Some(\"6164e20ac3de15cbe6873d15338ae39392784d729dee7a4530ca5135588ce24e\"), 6)0f953d12a939fe4ef354fff77564841627136a6bf3667b256c4a5cb6768788da0af7ba66f9a27ed0e229221aada0cc88d5d6fd58f46f72eb626bd37b8e94efc80af7ba66f9a27ed0e229221aada0cc88d5d6fd58f46f72eb626bd37b8e94efc8"
        :> <<6, 15, 14, 9, 7, 3, 11, 8, 12, 3, 11, 4, 6, 0, 0, 0, 9, 10, 14, 12, 10, 0, 14, 10, 4, 1, 3, 4, 11, 8, 5, 0, 5, 2, 12, 10, 7, 10, 0, 10, 7, 0, 14, 10, 1, 11, 15, 5, 3, 0, 3, 15, 4, 7, 13, 8, 2, 2, 15, 3, 14, 9, 2, 7>>)
    @@
    (("(Some(\"6164e20ac3de15cbe6873d15338ae39392784d729dee7a4530ca5135588ce24e\"), 6)0f953d12a939fe4ef354fff77564841627136a6bf3667b256c4a5cb6768788da0af7ba66f9a27ed0e229221aada0cc88d5d6fd58f46f72eb626bd37b8e94efc80f953d12a939fe4ef354fff77564841627136a6bf3667b256c4a5cb6768788da"
        :> <<1, 3, 12, 14, 12, 6, 11, 7, 6, 10, 10, 4, 1, 7, 8, 5, 13, 1, 5, 9, 0, 12, 9, 3, 15, 7, 5, 0, 10, 3, 2, 0, 0, 9, 13, 15, 15, 9, 6, 0, 14, 8, 2, 9, 13, 12, 6, 7, 9, 6, 0, 6, 7, 2, 5, 0, 2, 15, 9, 14, 10, 14, 7, 3>>)
    @@
    ("(Some(\"6164e20ac3de15cbe6873d15338ae39392784d729dee7a4530ca5135588ce24e\"), 6)0f953d12a939fe4ef354fff77564841627136a6bf3667b256c4a5cb6768788da0af7ba66f9a27ed0e229221aada0cc88d5d6fd58f46f72eb626bd37b8e94efc8140fc148a380d69b8753d296355d450a4c606dfa652482747ab694cd6ac23972"
        :> <<10, 7, 0, 4, 2, 12, 1, 3, 4, 2, 4, 13, 10, 7, 6, 12, 14, 7, 6, 1, 8, 7, 10, 4, 13, 1, 14, 10, 2, 11, 14, 7, 8, 13, 14, 3, 6, 6, 15, 10, 12, 7, 5, 11, 4, 6, 1, 12, 2, 0, 3, 0, 0, 2, 1, 2, 6, 4, 3, 2, 14, 1, 8, 0>>))))
    @@
    ((("(Some(\"6164e20ac3de15cbe6873d15338ae39392784d729dee7a4530ca5135588ce24e\"), 6)0f953d12a939fe4ef354fff77564841627136a6bf3667b256c4a5cb6768788da0af7ba66f9a27ed0e229221aada0cc88d5d6fd58f46f72eb626bd37b8e94efc87d3c95f98bd2b66af7c1d3a16cad13e01562539e02afc9695b86a5416092645f"
        :> <<4, 2, 3, 3, 14, 12, 4, 0, 5, 9, 0, 10, 14, 5, 11, 14, 10, 4, 11, 5, 0, 5, 1, 6, 4, 7, 14, 8, 12, 5, 2, 1, 15, 15, 0, 6, 1, 11, 11, 5, 15, 13, 11, 0, 6, 6, 10, 2, 7, 15, 11, 13, 1, 12, 4, 10, 15, 1, 15, 2, 11, 9, 8, 6>>)
    @@
    (("(Some(\"6164e20ac3de15cbe6873d15338ae39392784d729dee7a4530ca5135588ce24e\"), 6)0f953d12a939fe4ef354fff77564841627136a6bf3667b256c4a5cb6768788da0f953d12a939fe4ef354fff77564841627136a6bf3667b256c4a5cb6768788da"
        :> <<9, 6, 8, 1, 6, 5, 13, 12, 12, 12, 6, 0, 8, 6, 15, 3, 10, 7, 3, 1, 11, 2, 11, 7, 0, 8, 11, 8, 3, 9, 0, 11, 1, 6, 11, 7, 4, 9, 1, 2, 8, 2, 7, 11, 6, 10, 10, 14, 3, 6, 11, 4, 7, 3, 12, 3, 6, 9, 0, 5, 7, 5, 14, 7>>)
    @@
    ("(Some(\"6164e20ac3de15cbe6873d15338ae39392784d729dee7a4530ca5135588ce24e\"), 6)0f953d12a939fe4ef354fff77564841627136a6bf3667b256c4a5cb6768788da0f953d12a939fe4ef354fff77564841627136a6bf3667b256c4a5cb6768788da0af7ba66f9a27ed0e229221aada0cc88d5d6fd58f46f72eb626bd37b8e94efc8"
        :> <<0, 5, 11, 11, 8, 4, 7, 12, 2, 10, 1, 11, 15, 14, 15, 15, 6, 14, 2, 6, 9, 15, 10, 6, 0, 7, 2, 11, 1, 8, 10, 7, 10, 13, 14, 4, 9, 1, 13, 4, 7, 14, 6, 1, 0, 13, 15, 12, 2, 11, 10, 15, 15, 7, 5, 14, 0, 7, 1, 11, 10, 13, 12, 6>>)))
    @@
    ((("(Some(\"6164e20ac3de15cbe6873d15338ae39392784d729dee7a4530ca5135588ce24e\"), 6)0f953d12a939fe4ef354fff77564841627136a6bf3667b256c4a5cb6768788da0f953d12a939fe4ef354fff77564841627136a6bf3667b256c4a5cb6768788da0f953d12a939fe4ef354fff77564841627136a6bf3667b256c4a5cb6768788da"
        :> <<8, 0, 2, 6, 6, 12, 0, 14, 6, 6, 9, 10, 15, 2, 4, 7, 4, 3, 15, 1, 15, 15, 2, 2, 7, 9, 4, 6, 1, 1, 12, 12, 8, 7, 4, 10, 14, 9, 6, 10, 0, 13, 10, 4, 8, 1, 5, 5, 3, 8, 15, 12, 9, 14, 3, 15, 0, 10, 7, 9, 13, 1, 6, 6>>)
    @@
    ("(Some(\"6164e20ac3de15cbe6873d15338ae39392784d729dee7a4530ca5135588ce24e\"), 6)0f953d12a939fe4ef354fff77564841627136a6bf3667b256c4a5cb6768788da0f953d12a939fe4ef354fff77564841627136a6bf3667b256c4a5cb6768788da140fc148a380d69b8753d296355d450a4c606dfa652482747ab694cd6ac23972"
        :> <<4, 6, 8, 4, 2, 11, 0, 4, 12, 12, 3, 6, 6, 6, 1, 11, 9, 6, 8, 12, 5, 5, 5, 8, 6, 6, 12, 14, 6, 5, 0, 1, 4, 12, 1, 7, 4, 11, 5, 1, 3, 11, 2, 1, 9, 10, 6, 13, 5, 4, 1, 3, 11, 10, 2, 4, 8, 7, 6, 12, 7, 12, 13, 3>>))
    @@
    (("(Some(\"6164e20ac3de15cbe6873d15338ae39392784d729dee7a4530ca5135588ce24e\"), 6)0f953d12a939fe4ef354fff77564841627136a6bf3667b256c4a5cb6768788da0f953d12a939fe4ef354fff77564841627136a6bf3667b256c4a5cb6768788da7d3c95f98bd2b66af7c1d3a16cad13e01562539e02afc9695b86a5416092645f"
        :> <<2, 12, 3, 12, 1, 5, 3, 12, 6, 15, 7, 14, 6, 2, 8, 12, 6, 12, 4, 5, 5, 1, 2, 12, 0, 5, 3, 9, 6, 1, 11, 6, 10, 11, 9, 6, 4, 5, 10, 6, 10, 3, 13, 7, 13, 13, 7, 2, 0, 1, 11, 11, 4, 1, 9, 10, 7, 5, 11, 11, 13, 13, 10, 5>>)
    @@
    ("(Some(\"6164e20ac3de15cbe6873d15338ae39392784d729dee7a4530ca5135588ce24e\"), 6)0f953d12a939fe4ef354fff77564841627136a6bf3667b256c4a5cb6768788da140fc148a380d69b8753d296355d450a4c606dfa652482747ab694cd6ac23972"
        :> <<14, 8, 10, 6, 9, 3, 9, 9, 7, 9, 13, 10, 9, 5, 2, 12, 2, 4, 0, 6, 2, 2, 10, 10, 11, 6, 10, 0, 9, 13, 4, 10, 6, 11, 11, 12, 10, 5, 0, 12, 4, 8, 14, 13, 10, 1, 3, 1, 5, 5, 7, 2, 0, 3, 13, 9, 1, 9, 4, 12, 7, 7, 4, 14>>)))))
    @@
    (((("(Some(\"6164e20ac3de15cbe6873d15338ae39392784d729dee7a4530ca5135588ce24e\"), 6)0f953d12a939fe4ef354fff77564841627136a6bf3667b256c4a5cb6768788da140fc148a380d69b8753d296355d450a4c606dfa652482747ab694cd6ac239720af7ba66f9a27ed0e229221aada0cc88d5d6fd58f46f72eb626bd37b8e94efc8"
        :> <<4, 11, 2, 5, 0, 14, 1, 13, 3, 6, 0, 11, 4, 12, 9, 10, 9, 5, 0, 15, 13, 1, 15, 12, 9, 14, 12, 3, 12, 15, 13, 7, 11, 5, 13, 3, 4, 15, 1, 8, 10, 0, 12, 7, 11, 15, 3, 14, 15, 14, 3, 9, 1, 13, 0, 13, 14, 13, 14, 5, 8, 8, 0, 9>>)
    @@
    (("(Some(\"6164e20ac3de15cbe6873d15338ae39392784d729dee7a4530ca5135588ce24e\"), 6)0f953d12a939fe4ef354fff77564841627136a6bf3667b256c4a5cb6768788da140fc148a380d69b8753d296355d450a4c606dfa652482747ab694cd6ac239720f953d12a939fe4ef354fff77564841627136a6bf3667b256c4a5cb6768788da"
        :> <<13, 10, 10, 13, 7, 9, 7, 5, 11, 13, 10, 7, 10, 10, 2, 7, 12, 6, 5, 15, 8, 4, 0, 5, 6, 1, 4, 3, 9, 10, 2, 9, 9, 7, 10, 15, 15, 13, 0, 2, 5, 8, 14, 10, 9, 2, 5, 15, 8, 7, 5, 1, 15, 8, 14, 0, 8, 3, 10, 0, 11, 9, 15, 10>>)
    @@
    ("(Some(\"6164e20ac3de15cbe6873d15338ae39392784d729dee7a4530ca5135588ce24e\"), 6)0f953d12a939fe4ef354fff77564841627136a6bf3667b256c4a5cb6768788da140fc148a380d69b8753d296355d450a4c606dfa652482747ab694cd6ac23972140fc148a380d69b8753d296355d450a4c606dfa652482747ab694cd6ac23972"
        :> <<6, 9, 13, 2, 5, 9, 1, 12, 12, 14, 15, 12, 1, 6, 1, 14, 1, 13, 9, 6, 2, 13, 1, 15, 13, 1, 9, 3, 6, 6, 1, 14, 9, 2, 9, 4, 0, 0, 2, 5, 0, 5, 15, 6, 11, 12, 4, 1, 1, 8, 0, 12, 12, 8, 1, 13, 14, 6, 0, 6, 10, 5, 14, 6>>)))
    @@
    (("(Some(\"6164e20ac3de15cbe6873d15338ae39392784d729dee7a4530ca5135588ce24e\"), 6)0f953d12a939fe4ef354fff77564841627136a6bf3667b256c4a5cb6768788da140fc148a380d69b8753d296355d450a4c606dfa652482747ab694cd6ac239727d3c95f98bd2b66af7c1d3a16cad13e01562539e02afc9695b86a5416092645f"
        :> <<1, 3, 14, 0, 13, 10, 3, 11, 7, 0, 8, 13, 0, 5, 15, 9, 9, 4, 10, 8, 13, 6, 10, 3, 14, 3, 8, 9, 7, 3, 9, 1, 6, 5, 0, 1, 11, 9, 4, 14, 15, 15, 14, 15, 5, 12, 1, 14, 11, 12, 9, 1, 8, 6, 11, 8, 1, 2, 12, 13, 9, 7, 3, 11>>)
    @@
    (("(Some(\"6164e20ac3de15cbe6873d15338ae39392784d729dee7a4530ca5135588ce24e\"), 6)0f953d12a939fe4ef354fff77564841627136a6bf3667b256c4a5cb6768788da7d3c95f98bd2b66af7c1d3a16cad13e01562539e02afc9695b86a5416092645f"
        :> <<7, 14, 11, 13, 10, 13, 11, 10, 8, 4, 5, 1, 0, 6, 5, 5, 10, 11, 4, 13, 7, 12, 11, 9, 5, 2, 5, 9, 11, 15, 14, 15, 11, 1, 6, 6, 0, 15, 2, 4, 0, 2, 8, 8, 2, 7, 8, 0, 13, 10, 9, 9, 0, 11, 11, 9, 14, 6, 6, 14, 15, 3, 11, 4>>)
    @@
    ("(Some(\"6164e20ac3de15cbe6873d15338ae39392784d729dee7a4530ca5135588ce24e\"), 6)0f953d12a939fe4ef354fff77564841627136a6bf3667b256c4a5cb6768788da7d3c95f98bd2b66af7c1d3a16cad13e01562539e02afc9695b86a5416092645f0af7ba66f9a27ed0e229221aada0cc88d5d6fd58f46f72eb626bd37b8e94efc8"
        :> <<9, 11, 2, 2, 12, 11, 9, 1, 14, 8, 9, 2, 0, 5, 10, 8, 12, 10, 2, 4, 5, 15, 1, 9, 10, 8, 5, 5, 1, 11, 6, 2, 9, 12, 11, 12, 12, 6, 10, 4, 13, 8, 11, 7, 14, 2, 5, 8, 4, 6, 0, 2, 5, 14, 11, 15, 0, 5, 1, 2, 3, 12, 1, 14>>))))
    @@
    ((("(Some(\"6164e20ac3de15cbe6873d15338ae39392784d729dee7a4530ca5135588ce24e\"), 6)0f953d12a939fe4ef354fff77564841627136a6bf3667b256c4a5cb6768788da7d3c95f98bd2b66af7c1d3a16cad13e01562539e02afc9695b86a5416092645f0f953d12a939fe4ef354fff77564841627136a6bf3667b256c4a5cb6768788da"
        :> <<1, 8, 14, 7, 12, 9, 3, 8, 10, 9, 2, 7, 12, 11, 1, 3, 13, 15, 10, 1, 4, 3, 1, 0, 9, 5, 6, 8, 0, 5, 8, 13, 3, 5, 5, 15, 4, 9, 4, 5, 13, 13, 3, 3, 11, 10, 4, 5, 10, 11, 0, 15, 6, 7, 0, 11, 10, 13, 0, 9, 8, 14, 13, 11>>)
    @@
    (("(Some(\"6164e20ac3de15cbe6873d15338ae39392784d729dee7a4530ca5135588ce24e\"), 6)0f953d12a939fe4ef354fff77564841627136a6bf3667b256c4a5cb6768788da7d3c95f98bd2b66af7c1d3a16cad13e01562539e02afc9695b86a5416092645f140fc148a380d69b8753d296355d450a4c606dfa652482747ab694cd6ac23972"
        :> <<1, 14, 14, 14, 11, 11, 6, 0, 15, 15, 3, 12, 0, 11, 6, 14, 13, 12, 14, 7, 15, 3, 4, 2, 11, 2, 6, 3, 10, 2, 1, 3, 13, 13, 14, 14, 4, 14, 0, 4, 14, 12, 10, 6, 12, 2, 12, 9, 2, 9, 15, 5, 7, 5, 4, 6, 12, 15, 8, 15, 12, 7, 14, 10>>)
    @@
    ("(Some(\"6164e20ac3de15cbe6873d15338ae39392784d729dee7a4530ca5135588ce24e\"), 6)0f953d12a939fe4ef354fff77564841627136a6bf3667b256c4a5cb6768788da7d3c95f98bd2b66af7c1d3a16cad13e01562539e02afc9695b86a5416092645f7d3c95f98bd2b66af7c1d3a16cad13e01562539e02afc9695b86a5416092645f"
        :> <<14, 15, 15, 5, 8, 9, 8, 0, 1, 4, 9, 15, 10, 4, 14, 3, 9, 12, 8, 14, 13, 12, 11, 12, 14, 5, 1, 10, 8, 13, 13, 14, 15, 10, 13, 10, 10, 12, 3, 1, 6, 8, 12, 11, 13, 12, 0, 4, 6, 9, 3, 9, 2, 11, 8, 14, 11, 8, 2, 4, 1, 13, 12, 14>>)))
    @@
    ((("(Some(\"6164e20ac3de15cbe6873d15338ae39392784d729dee7a4530ca5135588ce24e\"), 6)140fc148a380d69b8753d296355d450a4c606dfa652482747ab694cd6ac23972"
        :> <<15, 0, 12, 5, 9, 3, 4, 0, 8, 10, 14, 12, 6, 9, 3, 3, 2, 9, 6, 14, 13, 14, 4, 7, 7, 13, 7, 3, 11, 4, 9, 6, 0, 6, 13, 10, 12, 3, 2, 8, 12, 1, 0, 11, 2, 2, 8, 14, 10, 1, 12, 0, 14, 12, 15, 4, 5, 8, 3, 5, 8, 6, 1, 12>>)
    @@
    ("(Some(\"6164e20ac3de15cbe6873d15338ae39392784d729dee7a4530ca5135588ce24e\"), 6)140fc148a380d69b8753d296355d450a4c606dfa652482747ab694cd6ac239720af7ba66f9a27ed0e229221aada0cc88d5d6fd58f46f72eb626bd37b8e94efc8"
        :> <<0, 14, 11, 6, 9, 0, 14, 6, 13, 10, 5, 1, 13, 7, 10, 7, 1, 14, 4, 15, 15, 3, 8, 2, 1, 10, 6, 15, 10, 1, 2, 11, 6, 0, 3, 11, 12, 7, 2, 6, 8, 4, 10, 15, 7, 2, 1, 5, 5, 3, 3, 6, 8, 0, 9, 5, 4, 0, 8, 2, 2, 5, 9, 4>>))
    @@
    (("(Some(\"6164e20ac3de15cbe6873d15338ae39392784d729dee7a4530ca5135588ce24e\"), 6)140fc148a380d69b8753d296355d450a4c606dfa652482747ab694cd6ac239720af7ba66f9a27ed0e229221aada0cc88d5d6fd58f46f72eb626bd37b8e94efc80af7ba66f9a27ed0e229221aada0cc88d5d6fd58f46f72eb626bd37b8e94efc8"
        :> <<6, 13, 2, 2, 9, 3, 5, 7, 14, 7, 9, 15, 14, 8, 6, 1, 9, 15, 3, 4, 8, 6, 4, 3, 8, 14, 0, 12, 8, 9, 15, 11, 11, 9, 8, 15, 11, 2, 6, 4, 9, 4, 0, 1, 13, 9, 10, 15, 9, 15, 8, 12, 10, 15, 11, 13, 11, 14, 9, 2, 10, 11, 8, 3>>)
    @@
    ("(Some(\"6164e20ac3de15cbe6873d15338ae39392784d729dee7a4530ca5135588ce24e\"), 6)140fc148a380d69b8753d296355d450a4c606dfa652482747ab694cd6ac239720af7ba66f9a27ed0e229221aada0cc88d5d6fd58f46f72eb626bd37b8e94efc80f953d12a939fe4ef354fff77564841627136a6bf3667b256c4a5cb6768788da"
        :> <<14, 8, 10, 13, 7, 8, 6, 4, 5, 14, 2, 9, 11, 12, 9, 12, 7, 13, 8, 8, 6, 6, 3, 4, 12, 6, 6, 13, 6, 6, 8, 2, 6, 6, 8, 15, 10, 6, 13, 8, 2, 8, 8, 10, 9, 6, 2, 3, 0, 7, 7, 13, 9, 2, 11, 7, 7, 15, 10, 7, 12, 8, 14, 9>>)))))))
    @@
    (((((("(Some(\"6164e20ac3de15cbe6873d15338ae39392784d729dee7a4530ca5135588ce24e\"), 6)140fc148a380d69b8753d296355d450a4c606dfa652482747ab694cd6ac239720af7ba66f9a27ed0e229221aada0cc88d5d6fd58f46f72eb626bd37b8e94efc8140fc148a380d69b8753d296355d450a4c606dfa652482747ab694cd6ac23972"
        :> <<9, 2, 12, 12, 11, 7, 9, 3, 1, 2, 11, 11, 15, 3, 11, 3, 15, 10, 11, 15, 12, 4, 9, 15, 5, 2, 0, 12, 2, 0, 6, 4, 0, 12, 0, 3, 10, 5, 5, 1, 11, 12, 1, 9, 0, 1, 6, 1, 15, 15, 4, 3, 8, 5, 10, 3, 5, 4, 10, 7, 1, 6, 4, 10>>)
    @@
    (("(Some(\"6164e20ac3de15cbe6873d15338ae39392784d729dee7a4530ca5135588ce24e\"), 6)140fc148a380d69b8753d296355d450a4c606dfa652482747ab694cd6ac239720af7ba66f9a27ed0e229221aada0cc88d5d6fd58f46f72eb626bd37b8e94efc87d3c95f98bd2b66af7c1d3a16cad13e01562539e02afc9695b86a5416092645f"
        :> <<0, 15, 14, 4, 2, 11, 7, 7, 12, 15, 8, 10, 12, 10, 10, 4, 13, 9, 14, 7, 2, 3, 0, 8, 12, 4, 0, 6, 2, 2, 13, 4, 6, 11, 2, 9, 9, 9, 4, 15, 11, 5, 13, 10, 8, 15, 13, 9, 6, 15, 6, 15, 11, 1, 0, 3, 3, 15, 10, 10, 4, 1, 14, 15>>)
    @@
    ("(Some(\"6164e20ac3de15cbe6873d15338ae39392784d729dee7a4530ca5135588ce24e\"), 6)140fc148a380d69b8753d296355d450a4c606dfa652482747ab694cd6ac239720f953d12a939fe4ef354fff77564841627136a6bf3667b256c4a5cb6768788da"
        :> <<13, 15, 12, 14, 8, 9, 10, 3, 4, 12, 7, 13, 12, 4, 10, 1, 1, 2, 1, 13, 10, 12, 5, 15, 0, 5, 11, 6, 2, 6, 1, 8, 10, 10, 4, 8, 4, 2, 14, 2, 14, 10, 8, 11, 9, 8, 8, 4, 14, 2, 7, 8, 10, 3, 14, 4, 10, 11, 15, 0, 14, 6, 0, 1>>)))
    @@
    (("(Some(\"6164e20ac3de15cbe6873d15338ae39392784d729dee7a4530ca5135588ce24e\"), 6)140fc148a380d69b8753d296355d450a4c606dfa652482747ab694cd6ac239720f953d12a939fe4ef354fff77564841627136a6bf3667b256c4a5cb6768788da0af7ba66f9a27ed0e229221aada0cc88d5d6fd58f46f72eb626bd37b8e94efc8"
        :> <<4, 9, 12, 9, 9, 8, 5, 10, 5, 14, 11, 15, 11, 12, 0, 11, 11, 7, 15, 9, 5, 10, 6, 0, 12, 9, 12, 8, 3, 14, 1, 6, 12, 9, 14, 9, 5, 10, 6, 6, 13, 6, 5, 2, 5, 11, 6, 6, 15, 10, 4, 12, 9, 4, 13, 2, 10, 3, 9, 0, 15, 1, 4, 5>>)
    @@
    (("(Some(\"6164e20ac3de15cbe6873d15338ae39392784d729dee7a4530ca5135588ce24e\"), 6)140fc148a380d69b8753d296355d450a4c606dfa652482747ab694cd6ac239720f953d12a939fe4ef354fff77564841627136a6bf3667b256c4a5cb6768788da0f953d12a939fe4ef354fff77564841627136a6bf3667b256c4a5cb6768788da"
        :> <<13, 5, 3, 15, 9, 6, 3, 1, 2, 3, 11, 4, 14, 15, 4, 12, 8, 14, 0, 4, 10, 4, 2, 7, 4, 3, 11, 10, 15, 4, 7, 12, 6, 10, 12, 6, 15, 3, 4, 5, 14, 9, 5, 3, 12, 8, 10, 3, 6, 8, 1, 6, 13, 8, 0, 6, 8, 3, 13, 5, 10, 10, 15, 10>>)
    @@
    ("(Some(\"6164e20ac3de15cbe6873d15338ae39392784d729dee7a4530ca5135588ce24e\"), 6)140fc148a380d69b8753d296355d450a4c606dfa652482747ab694cd6ac239720f953d12a939fe4ef354fff77564841627136a6bf3667b256c4a5cb6768788da140fc148a380d69b8753d296355d450a4c606dfa652482747ab694cd6ac23972"
        :> <<1, 4, 14, 5, 14, 9, 4, 13, 1, 11, 8, 6, 10, 1, 15, 12, 9, 1, 7, 0, 0, 9, 3, 2, 2, 11, 6, 15, 11, 11, 14, 4, 6, 4, 6, 0, 6, 3, 11, 14, 10, 6, 4, 13, 4, 15, 12, 15, 11, 2, 9, 7, 4, 5, 4, 15, 7, 5, 10, 14, 15, 1, 3, 14>>))))
    @@
    ((("(Some(\"6164e20ac3de15cbe6873d15338ae39392784d729dee7a4530ca5135588ce24e\"), 6)140fc148a380d69b8753d296355d450a4c606dfa652482747ab694cd6ac239720f953d12a939fe4ef354fff77564841627136a6bf3667b256c4a5cb6768788da7d3c95f98bd2b66af7c1d3a16cad13e01562539e02afc9695b86a5416092645f"
        :> <<10, 12, 12, 2, 2, 5, 13, 13, 11, 0, 6, 9, 2, 11, 11, 6, 8, 1, 14, 11, 4, 6, 5, 5, 2, 6, 5, 15, 5, 6, 11, 9, 4, 5, 5, 6, 14, 0, 11, 6, 10, 10, 6, 8, 0, 7, 0, 2, 4, 8, 2, 8, 7, 6, 4, 10, 11, 15, 14, 13, 13, 11, 13, 10>>)
    @@
    (("(Some(\"6164e20ac3de15cbe6873d15338ae39392784d729dee7a4530ca5135588ce24e\"), 6)140fc148a380d69b8753d296355d450a4c606dfa652482747ab694cd6ac23972140fc148a380d69b8753d296355d450a4c606dfa652482747ab694cd6ac23972"
        :> <<11, 15, 4, 5, 1, 6, 7, 7, 9, 13, 4, 1, 8, 4, 6, 0, 4, 0, 10, 4, 10, 13, 13, 3, 12, 4, 0, 1, 10, 0, 6, 14, 8, 12, 12, 5, 12, 10, 4, 12, 12, 5, 14, 5, 15, 12, 7, 9, 12, 6, 1, 9, 10, 7, 3, 7, 3, 1, 12, 3, 8, 7, 7, 10>>)
    @@
    ("(Some(\"6164e20ac3de15cbe6873d15338ae39392784d729dee7a4530ca5135588ce24e\"), 6)140fc148a380d69b8753d296355d450a4c606dfa652482747ab694cd6ac23972140fc148a380d69b8753d296355d450a4c606dfa652482747ab694cd6ac239720af7ba66f9a27ed0e229221aada0cc88d5d6fd58f46f72eb626bd37b8e94efc8"
        :> <<5, 5, 0, 4, 15, 13, 2, 4, 1, 11, 9, 3, 10, 1, 10, 2, 6, 15, 7, 12, 6, 13, 1, 9, 6, 2, 10, 15, 0, 0, 8, 3, 2, 8, 6, 7, 3, 4, 8, 3, 7, 2, 5, 9, 15, 5, 0, 0, 6, 11, 6, 0, 9, 1, 14, 10, 10, 7, 9, 11, 13, 14, 8, 1>>)))
    @@
    ((("(Some(\"6164e20ac3de15cbe6873d15338ae39392784d729dee7a4530ca5135588ce24e\"), 6)140fc148a380d69b8753d296355d450a4c606dfa652482747ab694cd6ac23972140fc148a380d69b8753d296355d450a4c606dfa652482747ab694cd6ac239720f953d12a939fe4ef354fff77564841627136a6bf3667b256c4a5cb6768788da"
        :> <<2, 10, 3, 11, 1, 12, 12, 9, 9, 4, 8, 14, 2, 11, 7, 9, 10, 8, 13, 5, 4, 14, 13, 9, 11, 15, 2, 2, 0, 2, 15, 15, 0, 13, 3, 12, 0, 1, 3, 5, 5, 8, 9, 12, 12, 10, 14, 6, 4, 15, 2, 14, 15, 10, 10, 6, 2, 14, 15, 3, 7, 9, 2, 13>>)
    @@
    ("(Some(\"6164e20ac3de15cbe6873d15338ae39392784d729dee7a4530ca5135588ce24e\"), 6)140fc148a380d69b8753d296355d450a4c606dfa652482747ab694cd6ac23972140fc148a380d69b8753d296355d450a4c606dfa652482747ab694cd6ac23972140fc148a380d69b8753d296355d450a4c606dfa652482747ab694cd6ac23972"
        :> <<12, 11, 2, 3, 3, 5, 9, 13, 10, 3, 13, 14, 8, 9, 13, 14, 5, 5, 2, 10, 6, 7, 3, 9, 9, 4, 8, 14, 5, 7, 5, 11, 11, 7, 14, 8, 4, 3, 14, 8, 0, 11, 6, 4, 8, 4, 0, 2, 1, 13, 10, 11, 15, 5, 14, 13, 8, 15, 13, 9, 7, 1, 4, 11>>))
    @@
    (("(Some(\"6164e20ac3de15cbe6873d15338ae39392784d729dee7a4530ca5135588ce24e\"), 6)140fc148a380d69b8753d296355d450a4c606dfa652482747ab694cd6ac23972140fc148a380d69b8753d296355d450a4c606dfa652482747ab694cd6ac239727d3c95f98bd2b66af7c1d3a16cad13e01562539e02afc9695b86a5416092645f"
        :> <<8, 1, 9, 2, 3, 8, 2, 0, 4, 11, 10, 5, 9, 3, 9, 0, 14, 9, 9, 10, 0, 3, 6, 2, 4, 6, 4, 8, 2, 15, 2, 15, 10, 14, 3, 15, 0, 8, 10, 3, 5, 5, 11, 15, 7, 6, 12, 7, 0, 2, 11, 13, 3, 13, 0, 9, 14, 4, 5, 9, 5, 14, 8, 11>>)
    @@
    ("(Some(\"6164e20ac3de15cbe6873d15338ae39392784d729dee7a4530ca5135588ce24e\"), 6)140fc148a380d69b8753d296355d450a4c606dfa652482747ab694cd6ac239727d3c95f98bd2b66af7c1d3a16cad13e01562539e02afc9695b86a5416092645f"
        :> <<7, 13, 9, 7, 1, 14, 13, 3, 5, 3, 8, 6, 15, 11, 2, 5, 14, 12, 9, 7, 6, 3, 5, 10, 14, 8, 2, 11, 8, 15, 13, 10, 5, 9, 10, 1, 13, 9, 12, 15, 10, 0, 1, 10, 11, 9, 14, 11, 12, 5, 7, 3, 10, 10, 9, 7, 1, 1, 7, 1, 0, 3, 8, 3>>)))))
    @@
    (((("(Some(\"6164e20ac3de15cbe6873d15338ae39392784d729dee7a4530ca5135588ce24e\"), 6)140fc148a380d69b8753d296355d450a4c606dfa652482747ab694cd6ac239727d3c95f98bd2b66af7c1d3a16cad13e01562539e02afc9695b86a5416092645f0af7ba66f9a27ed0e229221aada0cc88d5d6fd58f46f72eb626bd37b8e94efc8"
        :> <<13, 1, 15, 7, 9, 1, 15, 8, 15, 5, 0, 10, 3, 11, 7, 1, 3, 8, 14, 14, 8, 3, 2, 10, 1, 1, 0, 15, 9, 14, 8, 8, 3, 11, 1, 4, 8, 15, 7, 12, 14, 14, 11, 7, 14, 15, 10, 1, 9, 1, 14, 2, 0, 9, 0, 12, 10, 15, 3, 0, 6, 1, 10, 8>>)
    @@
    (("(Some(\"6164e20ac3de15cbe6873d15338ae39392784d729dee7a4530ca5135588ce24e\"), 6)140fc148a380d69b8753d296355d450a4c606dfa652482747ab694cd6ac239727d3c95f98bd2b66af7c1d3a16cad13e01562539e02afc9695b86a5416092645f0f953d12a939fe4ef354fff77564841627136a6bf3667b256c4a5cb6768788da"
        :> <<1, 12, 10, 3, 6, 13, 7, 15, 3, 11, 13, 5, 13, 6, 1, 15, 13, 13, 1, 11, 4, 0, 15, 13, 13, 9, 6, 8, 15, 8, 1, 7, 13, 5, 13, 6, 8, 14, 5, 6, 10, 6, 13, 7, 14, 3, 11, 4, 15, 14, 14, 8, 2, 7, 3, 6, 11, 8, 14, 8, 14, 5, 0, 2>>)
    @@
    ("(Some(\"6164e20ac3de15cbe6873d15338ae39392784d729dee7a4530ca5135588ce24e\"), 6)140fc148a380d69b8753d296355d450a4c606dfa652482747ab694cd6ac239727d3c95f98bd2b66af7c1d3a16cad13e01562539e02afc9695b86a5416092645f140fc148a380d69b8753d296355d450a4c606dfa652482747ab694cd6ac23972"
        :> <<8, 13, 9, 12, 4, 2, 13, 14, 0, 9, 3, 6, 12, 2, 8, 14, 9, 10, 8, 14, 1, 4, 11, 7, 12, 3, 2, 14, 1, 7, 1, 2, 9, 13, 2, 8, 6, 13, 6, 14, 10, 14, 13, 7, 5, 7, 7, 4, 12, 13, 13, 15, 13, 7, 4, 15, 2, 4, 7, 3, 13, 3, 6, 11>>)))
    @@
    (("(Some(\"6164e20ac3de15cbe6873d15338ae39392784d729dee7a4530ca5135588ce24e\"), 6)140fc148a380d69b8753d296355d450a4c606dfa652482747ab694cd6ac239727d3c95f98bd2b66af7c1d3a16cad13e01562539e02afc9695b86a5416092645f7d3c95f98bd2b66af7c1d3a16cad13e01562539e02afc9695b86a5416092645f"
        :> <<9, 5, 0, 12, 13, 1, 6, 10, 0, 12, 6, 10, 4, 1, 11, 8, 5, 0, 10, 10, 13, 8, 7, 11, 3, 14, 1, 4, 13, 2, 3, 8, 6, 7, 6, 7, 13, 2, 13, 4, 6, 8, 5, 9, 4, 3, 1, 11, 2, 11, 6, 7, 13, 4, 5, 1, 11, 3, 12, 9, 8, 1, 14, 14>>)
    @@
    (("(Some(\"6164e20ac3de15cbe6873d15338ae39392784d729dee7a4530ca5135588ce24e\"), 6)7d3c95f98bd2b66af7c1d3a16cad13e01562539e02afc9695b86a5416092645f"
        :> <<9, 7, 0, 1, 5, 7, 13, 10, 14, 4, 0, 3, 5, 10, 5, 4, 6, 14, 2, 4, 1, 4, 13, 14, 8, 7, 7, 7, 8, 15, 5, 13, 5, 7, 2, 10, 0, 8, 5, 6, 11, 9, 10, 10, 14, 8, 2, 0, 9, 7, 9, 0, 12, 14, 15, 9, 7, 3, 10, 2, 15, 12, 1, 7>>)
    @@
    ("(Some(\"6164e20ac3de15cbe6873d15338ae39392784d729dee7a4530ca5135588ce24e\"), 6)7d3c95f98bd2b66af7c1d3a16cad13e01562539e02afc9695b86a5416092645f0af7ba66f9a27ed0e229221aada0cc88d5d6fd58f46f72eb626bd37b8e94efc8"
        :> <<11, 12, 5, 14, 4, 13, 15, 6, 4, 11, 10, 4, 14, 5, 9, 12, 12, 13, 4, 14, 2, 9, 14, 3, 4, 5, 9, 3, 7, 9, 10, 2, 14, 10, 9, 11, 2, 13, 3, 7, 5, 6, 8, 1, 0, 3, 1, 12, 12, 14, 8, 8, 5, 0, 7, 14, 6, 1, 3, 8, 5, 0, 11, 12>>))))
    @@
    ((("(Some(\"6164e20ac3de15cbe6873d15338ae39392784d729dee7a4530ca5135588ce24e\"), 6)7d3c95f98bd2b66af7c1d3a16cad13e01562539e02afc9695b86a5416092645f0af7ba66f9a27ed0e229221aada0cc88d5d6fd58f46f72eb626bd37b8e94efc80af7ba66f9a27ed0e229221aada0cc88d5d6fd58f46f72eb626bd37b8e94efc8"
        :> <<8, 10, 7, 12, 10, 11, 2, 8, 12, 7, 4, 9, 10, 0, 13, 0, 9, 8, 15, 6, 10, 1, 6, 6, 0, 10, 13, 9, 13, 2, 10, 1, 13, 6, 2, 10, 9, 10, 2, 1, 7, 1, 0, 14, 4, 10, 14, 5, 13, 11, 2, 11, 15, 5, 3, 2, 12, 12, 7, 1, 12, 1, 15, 9>>)
    @@
    (("(Some(\"6164e20ac3de15cbe6873d15338ae39392784d729dee7a4530ca5135588ce24e\"), 6)7d3c95f98bd2b66af7c1d3a16cad13e01562539e02afc9695b86a5416092645f0af7ba66f9a27ed0e229221aada0cc88d5d6fd58f46f72eb626bd37b8e94efc80f953d12a939fe4ef354fff77564841627136a6bf3667b256c4a5cb6768788da"
        :> <<11, 10, 0, 13, 13, 7, 15, 13, 1, 15, 6, 10, 2, 6, 7, 2, 7, 5, 13, 12, 10, 14, 9, 0, 0, 4, 15, 6, 1, 0, 10, 3, 12, 3, 15, 7, 1, 15, 5, 14, 8, 0, 1, 0, 9, 9, 2, 6, 12, 3, 11, 0, 9, 1, 10, 3, 11, 3, 9, 14, 6, 12, 6, 7>>)
    @@
    ("(Some(\"6164e20ac3de15cbe6873d15338ae39392784d729dee7a4530ca5135588ce24e\"), 6)7d3c95f98bd2b66af7c1d3a16cad13e01562539e02afc9695b86a5416092645f0af7ba66f9a27ed0e229221aada0cc88d5d6fd58f46f72eb626bd37b8e94efc8140fc148a380d69b8753d296355d450a4c606dfa652482747ab694cd6ac23972"
        :> <<9, 12, 12, 6, 8, 0, 1, 0, 6, 6, 11, 10, 13, 11, 4, 10, 6, 9, 8, 10, 9, 11, 4, 12, 14, 14, 12, 0, 7, 4, 9, 7, 3, 0, 4, 9, 6, 1, 13, 6, 9, 4, 14, 7, 4, 14, 4, 1, 11, 8, 0, 6, 14, 2, 13, 11, 13, 4, 10, 14, 7, 15, 3, 8>>)))
    @@
    ((("(Some(\"6164e20ac3de15cbe6873d15338ae39392784d729dee7a4530ca5135588ce24e\"), 6)7d3c95f98bd2b66af7c1d3a16cad13e01562539e02afc9695b86a5416092645f0af7ba66f9a27ed0e229221aada0cc88d5d6fd58f46f72eb626bd37b8e94efc87d3c95f98bd2b66af7c1d3a16cad13e01562539e02afc9695b86a5416092645f"
        :> <<0, 8, 7, 2, 14, 0, 1, 8, 13, 8, 15, 14, 4, 6, 12, 8, 9, 13, 4, 12, 9, 12, 7, 1, 5, 10, 1, 11, 12, 1, 10, 0, 2, 5, 7, 9, 13, 12, 8, 0, 2, 8, 3, 13, 11, 11, 3, 5, 1, 12, 1, 2, 14, 11, 13, 7, 5, 12, 13, 1, 3, 10, 15, 11>>)
    @@
    ("(Some(\"6164e20ac3de15cbe6873d15338ae39392784d729dee7a4530ca5135588ce24e\"), 6)7d3c95f98bd2b66af7c1d3a16cad13e01562539e02afc9695b86a5416092645f0f953d12a939fe4ef354fff77564841627136a6bf3667b256c4a5cb6768788da"
        :> <<15, 13, 12, 2, 9, 5, 1, 8, 0, 14, 12, 1, 1, 2, 14, 14, 4, 8, 14, 8, 14, 8, 1, 14, 9, 15, 1, 0, 2, 4, 14, 2, 14, 12, 9, 2, 0, 11, 11, 9, 0, 1, 13, 14, 6, 8, 6, 7, 3, 14, 2, 8, 15, 9, 4, 14, 5, 4, 5, 3, 11, 8, 12, 0>>))
    @@
    (("(Some(\"6164e20ac3de15cbe6873d15338ae39392784d729dee7a4530ca5135588ce24e\"), 6)7d3c95f98bd2b66af7c1d3a16cad13e01562539e02afc9695b86a5416092645f0f953d12a939fe4ef354fff77564841627136a6bf3667b256c4a5cb6768788da0af7ba66f9a27ed0e229221aada0cc88d5d6fd58f46f72eb626bd37b8e94efc8"
        :> <<1, 12, 4, 3, 13, 8, 6, 3, 5, 12, 13, 4, 5, 14, 1, 5, 14, 10, 1, 7, 2, 6, 1, 15, 0, 2, 14, 8, 2, 8, 13, 12, 4, 2, 1, 12, 0, 11, 12, 13, 9, 10, 6, 1, 3, 6, 6, 13, 13, 7, 7, 9, 8, 14, 0, 8, 9, 3, 14, 3, 11, 1, 0, 10>>)
    @@
    ("(Some(\"6164e20ac3de15cbe6873d15338ae39392784d729dee7a4530ca5135588ce24e\"), 6)7d3c95f98bd2b66af7c1d3a16cad13e01562539e02afc9695b86a5416092645f0f953d12a939fe4ef354fff77564841627136a6bf3667b256c4a5cb6768788da0f953d12a939fe4ef354fff77564841627136a6bf3667b256c4a5cb6768788da"
        :> <<10, 9, 1, 12, 4, 9, 1, 6, 6, 8, 1, 2, 2, 9, 12, 3, 9, 0, 15, 9, 2, 8, 15, 13, 4, 7, 13, 0, 9, 4, 15, 15, 5, 10, 15, 5, 7, 8, 2, 3, 3, 5, 7, 2, 5, 15, 14, 6, 0, 12, 5, 2, 8, 10, 11, 14, 13, 4, 8, 10, 0, 14, 3, 7>>))))))
    @@
    ((((("(Some(\"6164e20ac3de15cbe6873d15338ae39392784d729dee7a4530ca5135588ce24e\"), 6)7d3c95f98bd2b66af7c1d3a16cad13e01562539e02afc9695b86a5416092645f0f953d12a939fe4ef354fff77564841627136a6bf3667b256c4a5cb6768788da140fc148a380d69b8753d296355d450a4c606dfa652482747ab694cd6ac23972"
        :> <<6, 14, 6, 2, 13, 15, 14, 5, 10, 0, 5, 14, 7, 10, 2, 13, 7, 5, 4, 1, 15, 8, 14, 12, 8, 9, 1, 14, 1, 14, 7, 3, 14, 12, 8, 10, 14, 13, 15, 12, 15, 5, 3, 1, 7, 3, 4, 3, 0, 8, 8, 5, 10, 9, 7, 13, 11, 9, 0, 15, 4, 4, 5, 3>>)
    @@
    (("(Some(\"6164e20ac3de15cbe6873d15338ae39392784d729dee7a4530ca5135588ce24e\"), 6)7d3c95f98bd2b66af7c1d3a16cad13e01562539e02afc9695b86a5416092645f0f953d12a939fe4ef354fff77564841627136a6bf3667b256c4a5cb6768788da7d3c95f98bd2b66af7c1d3a16cad13e01562539e02afc9695b86a5416092645f"
        :> <<6, 7, 11, 4, 4, 7, 15, 7, 2, 15, 14, 2, 13, 7, 0, 3, 11, 14, 15, 4, 6, 10, 1, 1, 0, 12, 14, 14, 14, 1, 9, 4, 4, 10, 4, 3, 14, 12, 9, 2, 12, 13, 8, 5, 3, 8, 10, 0, 6, 11, 10, 12, 13, 8, 0, 9, 0, 8, 13, 8, 10, 11, 3, 0>>)
    @@
    ("(Some(\"6164e20ac3de15cbe6873d15338ae39392784d729dee7a4530ca5135588ce24e\"), 6)7d3c95f98bd2b66af7c1d3a16cad13e01562539e02afc9695b86a5416092645f140fc148a380d69b8753d296355d450a4c606dfa652482747ab694cd6ac23972"
        :> <<7, 7, 3, 9, 5, 10, 2, 13, 10, 0, 6, 11, 12, 2, 10, 6, 11, 2, 2, 0, 7, 0, 8, 10, 5, 13, 0, 13, 10, 11, 14, 0, 3, 5, 11, 9, 13, 0, 5, 3, 6, 15, 7, 14, 5, 14, 15, 4, 3, 13, 8, 9, 3, 8, 0, 5, 4, 5, 13, 5, 15, 0, 8, 14>>)))
    @@
    (("(Some(\"6164e20ac3de15cbe6873d15338ae39392784d729dee7a4530ca5135588ce24e\"), 6)7d3c95f98bd2b66af7c1d3a16cad13e01562539e02afc9695b86a5416092645f140fc148a380d69b8753d296355d450a4c606dfa652482747ab694cd6ac239720af7ba66f9a27ed0e229221aada0cc88d5d6fd58f46f72eb626bd37b8e94efc8"
        :> <<11, 15, 0, 8, 12, 15, 4, 9, 0, 1, 9, 1, 6, 1, 1, 14, 15, 15, 4, 13, 1, 10, 6, 13, 12, 5, 1, 9, 2, 2, 3, 1, 11, 1, 7, 3, 9, 12, 6, 15, 6, 8, 9, 6, 11, 3, 12, 0, 2, 11, 3, 3, 11, 6, 2, 3, 14, 3, 2, 2, 5, 5, 10, 1>>)
    @@
    (("(Some(\"6164e20ac3de15cbe6873d15338ae39392784d729dee7a4530ca5135588ce24e\"), 6)7d3c95f98bd2b66af7c1d3a16cad13e01562539e02afc9695b86a5416092645f140fc148a380d69b8753d296355d450a4c606dfa652482747ab694cd6ac239720f953d12a939fe4ef354fff77564841627136a6bf3667b256c4a5cb6768788da"
        :> <<12, 2, 4, 12, 6, 12, 2, 10, 2, 7, 8, 2, 8, 10, 12, 4, 4, 8, 12, 12, 6, 5, 2, 13, 13, 15, 1, 2, 7, 12, 14, 0, 7, 13, 7, 4, 13, 9, 7, 5, 14, 1, 0, 0, 6, 7, 11, 4, 10, 5, 1, 13, 3, 10, 14, 12, 6, 0, 8, 13, 12, 1, 6, 3>>)
    @@
    ("(Some(\"6164e20ac3de15cbe6873d15338ae39392784d729dee7a4530ca5135588ce24e\"), 6)7d3c95f98bd2b66af7c1d3a16cad13e01562539e02afc9695b86a5416092645f140fc148a380d69b8753d296355d450a4c606dfa652482747ab694cd6ac23972140fc148a380d69b8753d296355d450a4c606dfa652482747ab694cd6ac23972"
        :> <<11, 10, 15, 0, 13, 12, 0, 3, 13, 7, 4, 14, 10, 8, 11, 12, 9, 8, 9, 1, 14, 13, 3, 7, 9, 9, 1, 5, 3, 7, 6, 11, 7, 4, 5, 9, 15, 15, 1, 7, 8, 0, 7, 1, 6, 3, 13, 15, 11, 12, 0, 4, 0, 3, 11, 5, 2, 12, 0, 7, 9, 10, 7, 5>>))))
    @@
    ((("(Some(\"6164e20ac3de15cbe6873d15338ae39392784d729dee7a4530ca5135588ce24e\"), 6)7d3c95f98bd2b66af7c1d3a16cad13e01562539e02afc9695b86a5416092645f140fc148a380d69b8753d296355d450a4c606dfa652482747ab694cd6ac239727d3c95f98bd2b66af7c1d3a16cad13e01562539e02afc9695b86a5416092645f"
        :> <<5, 2, 3, 1, 0, 2, 0, 3, 0, 2, 11, 8, 0, 0, 8, 7, 13, 1, 4, 2, 15, 10, 8, 9, 4, 13, 14, 14, 5, 2, 4, 11, 10, 6, 15, 7, 14, 5, 11, 14, 1, 9, 14, 7, 2, 7, 10, 5, 13, 3, 2, 3, 4, 1, 6, 5, 6, 10, 15, 5, 0, 0, 8, 14>>)
    @@
    (("(Some(\"6164e20ac3de15cbe6873d15338ae39392784d729dee7a4530ca5135588ce24e\"), 6)7d3c95f98bd2b66af7c1d3a16cad13e01562539e02afc9695b86a5416092645f7d3c95f98bd2b66af7c1d3a16cad13e01562539e02afc9695b86a5416092645f"
        :> <<14, 15, 5, 3, 3, 13, 13, 3, 10, 5, 2, 6, 9, 15, 11, 2, 3, 14, 5, 15, 9, 2, 6, 15, 14, 2, 13, 4, 7, 4, 15, 0, 8, 11, 7, 12, 11, 11, 3, 14, 12, 7, 15, 8, 12, 12, 15, 13, 4, 12, 12, 2, 10, 9, 6, 8, 5, 12, 4, 1, 4, 11, 2, 14>>)
    @@
    ("(Some(\"6164e20ac3de15cbe6873d15338ae39392784d729dee7a4530ca5135588ce24e\"), 6)7d3c95f98bd2b66af7c1d3a16cad13e01562539e02afc9695b86a5416092645f7d3c95f98bd2b66af7c1d3a16cad13e01562539e02afc9695b86a5416092645f0af7ba66f9a27ed0e229221aada0cc88d5d6fd58f46f72eb626bd37b8e94efc8"
        :> <<3, 0, 12, 0, 2, 10, 15, 4, 2, 7, 14, 9, 1, 1, 10, 12, 12, 1, 10, 7, 10, 15, 14, 11, 2, 5, 15, 1, 15, 4, 8, 11, 0, 9, 11, 15, 11, 9, 12, 6, 11, 14, 13, 15, 7, 1, 7, 5, 14, 15, 10, 3, 2, 5, 10, 2, 15, 9, 15, 3, 10, 12, 5, 13>>)))
    @@
    ((("(Some(\"6164e20ac3de15cbe6873d15338ae39392784d729dee7a4530ca5135588ce24e\"), 6)7d3c95f98bd2b66af7c1d3a16cad13e01562539e02afc9695b86a5416092645f7d3c95f98bd2b66af7c1d3a16cad13e01562539e02afc9695b86a5416092645f0f953d12a939fe4ef354fff77564841627136a6bf3667b256c4a5cb6768788da"
        :> <<12, 11, 11, 5, 4, 0, 10, 4, 3, 12, 4, 2, 6, 14, 14, 0, 12, 5, 14, 0, 7, 1, 7, 15, 7, 2, 14, 10, 0, 9, 14, 3, 9, 9, 1, 6, 11, 2, 1, 7, 11, 5, 9, 4, 2, 1, 2, 12, 13, 5, 10, 3, 3, 14, 4, 15, 3, 8, 8, 4, 15, 5, 1, 11>>)
    @@
    ("(Some(\"6164e20ac3de15cbe6873d15338ae39392784d729dee7a4530ca5135588ce24e\"), 6)7d3c95f98bd2b66af7c1d3a16cad13e01562539e02afc9695b86a5416092645f7d3c95f98bd2b66af7c1d3a16cad13e01562539e02afc9695b86a5416092645f140fc148a380d69b8753d296355d450a4c606dfa652482747ab694cd6ac23972"
        :> <<3, 0, 15, 12, 4, 8, 2, 8, 12, 2, 7, 1, 14, 12, 12, 13, 13, 0, 14, 8, 4, 10, 7, 2, 8, 8, 9, 12, 2, 7, 13, 7, 7, 13, 2, 1, 7, 15, 3, 13, 5, 4, 5, 7, 10, 6, 0, 13, 14, 1, 10, 14, 14, 12, 2, 2, 6, 12, 0, 14, 15, 2, 5, 9>>))
    @@
    (("(Some(\"6164e20ac3de15cbe6873d15338ae39392784d729dee7a4530ca5135588ce24e\"), 6)7d3c95f98bd2b66af7c1d3a16cad13e01562539e02afc9695b86a5416092645f7d3c95f98bd2b66af7c1d3a16cad13e01562539e02afc9695b86a5416092645f7d3c95f98bd2b66af7c1d3a16cad13e01562539e02afc9695b86a5416092645f"
        :> <<1, 13, 8, 2, 13, 11, 6, 1, 0, 7, 0, 11, 15, 14, 5, 5, 9, 14, 8, 6, 8, 6, 9, 8, 11, 8, 14, 3, 13, 10, 12, 10, 5, 11, 9, 2, 2, 5, 12, 1, 10, 14, 0, 2, 5, 6, 1, 5, 0, 15, 11, 9, 1, 9, 9, 8, 8, 6, 12, 6, 0, 10, 5, 11>>)
    @@
    ("(Some(\"6164e20ac3de15cbe6873d15338ae39392784d729dee7a4530ca5135588ce24e\"), 7)"
        :> <<5, 9, 0, 10, 9, 11, 2, 3, 11, 2, 12, 12, 14, 7, 5, 7, 14, 12, 2, 12, 15, 9, 14, 12, 10, 13, 2, 13, 2, 10, 3, 4, 8, 14, 2, 10, 12, 13, 5, 7, 14, 6, 6, 4, 15, 13, 4, 9, 3, 15, 15, 1, 10, 4, 8, 12, 6, 4, 13, 12, 15, 14, 2, 15>>)))))
    @@
    (((("(Some(\"6164e20ac3de15cbe6873d15338ae39392784d729dee7a4530ca5135588ce24e\"), 7)0af7ba66f9a27ed0e229221aada0cc88d5d6fd58f46f72eb626bd37b8e94efc8"
        :> <<10, 14, 2, 12, 9, 4, 3, 11, 5, 7, 6, 4, 11, 11, 14, 11, 14, 15, 0, 14, 5, 3, 8, 12, 6, 4, 14, 11, 4, 8, 3, 11, 14, 0, 6, 2, 4, 11, 7, 13, 3, 1, 13, 13, 2, 12, 6, 14, 3, 6, 1, 9, 5, 6, 0, 4, 15, 14, 6, 12, 8, 4, 1, 14>>)
    @@
    (("(Some(\"6164e20ac3de15cbe6873d15338ae39392784d729dee7a4530ca5135588ce24e\"), 7)0af7ba66f9a27ed0e229221aada0cc88d5d6fd58f46f72eb626bd37b8e94efc80af7ba66f9a27ed0e229221aada0cc88d5d6fd58f46f72eb626bd37b8e94efc8"
        :> <<0, 0, 6, 8, 15, 12, 8, 5, 14, 13, 11, 7, 5, 10, 15, 13, 3, 8, 0, 9, 0, 12, 15, 13, 2, 7, 3, 11, 1, 14, 2, 6, 13, 7, 6, 14, 8, 9, 3, 3, 6, 2, 8, 15, 7, 1, 13, 12, 8, 8, 12, 3, 3, 5, 1, 1, 10, 14, 13, 8, 0, 5, 6, 10>>)
    @@
    ("(Some(\"6164e20ac3de15cbe6873d15338ae39392784d729dee7a4530ca5135588ce24e\"), 7)0af7ba66f9a27ed0e229221aada0cc88d5d6fd58f46f72eb626bd37b8e94efc80af7ba66f9a27ed0e229221aada0cc88d5d6fd58f46f72eb626bd37b8e94efc80af7ba66f9a27ed0e229221aada0cc88d5d6fd58f46f72eb626bd37b8e94efc8"
        :> <<10, 12, 7, 3, 13, 8, 15, 4, 3, 1, 15, 6, 1, 10, 6, 12, 3, 2, 2, 12, 1, 4, 8, 13, 3, 6, 10, 4, 7, 14, 15, 7, 1, 7, 3, 0, 3, 13, 0, 9, 14, 10, 1, 3, 11, 11, 5, 7, 11, 2, 14, 8, 7, 1, 10, 13, 5, 10, 12, 9, 0, 8, 7, 8>>)))
    @@
    ((("(Some(\"6164e20ac3de15cbe6873d15338ae39392784d729dee7a4530ca5135588ce24e\"), 7)0af7ba66f9a27ed0e229221aada0cc88d5d6fd58f46f72eb626bd37b8e94efc80af7ba66f9a27ed0e229221aada0cc88d5d6fd58f46f72eb626bd37b8e94efc80f953d12a939fe4ef354fff77564841627136a6bf3667b256c4a5cb6768788da"
        :> <<11, 4, 3, 5, 8, 15, 5, 10, 13, 13, 6, 13, 0, 3, 13, 14, 13, 1, 8, 14, 3, 15, 4, 6, 13, 0, 8, 3, 12, 5, 12, 14, 8, 11, 15, 15, 1, 7, 13, 15, 12, 12, 3, 10, 1, 13, 13, 8, 2, 6, 11, 7, 4, 2, 11, 15, 10, 6, 9, 10, 8, 1, 1, 15>>)
    @@
    ("(Some(\"6164e20ac3de15cbe6873d15338ae39392784d729dee7a4530ca5135588ce24e\"), 7)0af7ba66f9a27ed0e229221aada0cc88d5d6fd58f46f72eb626bd37b8e94efc80af7ba66f9a27ed0e229221aada0cc88d5d6fd58f46f72eb626bd37b8e94efc8140fc148a380d69b8753d296355d450a4c606dfa652482747ab694cd6ac23972"
        :> <<7, 14, 2, 14, 14, 12, 11, 11, 3, 14, 10, 15, 11, 13, 4, 8, 0, 13, 9, 8, 5, 4, 15, 9, 7, 1, 0, 11, 7, 0, 11, 9, 4, 14, 9, 5, 0, 7, 6, 6, 10, 15, 1, 14, 3, 9, 4, 5, 11, 7, 10, 13, 4, 3, 9, 8, 15, 15, 1, 0, 4, 2, 15, 7>>))
    @@
    (("(Some(\"6164e20ac3de15cbe6873d15338ae39392784d729dee7a4530ca5135588ce24e\"), 7)0af7ba66f9a27ed0e229221aada0cc88d5d6fd58f46f72eb626bd37b8e94efc80af7ba66f9a27ed0e229221aada0cc88d5d6fd58f46f72eb626bd37b8e94efc87d3c95f98bd2b66af7c1d3a16cad13e01562539e02afc9695b86a5416092645f"
        :> <<6, 7, 9, 15, 3, 10, 10, 2, 15, 12, 9, 14, 6, 10, 2, 13, 6, 8, 0, 5, 0, 0, 5, 9, 3, 14, 1, 3, 13, 2, 0, 4, 1, 8, 14, 8, 3, 4, 8, 8, 14, 7, 12, 1, 0, 1, 11, 8, 0, 8, 3, 14, 2, 9, 11, 7, 6, 11, 8, 7, 13, 7, 3, 8>>)
    @@
    ("(Some(\"6164e20ac3de15cbe6873d15338ae39392784d729dee7a4530ca5135588ce24e\"), 7)0af7ba66f9a27ed0e229221aada0cc88d5d6fd58f46f72eb626bd37b8e94efc80f953d12a939fe4ef354fff77564841627136a6bf3667b256c4a5cb6768788da"
        :> <<0, 3, 0, 8, 12, 12, 13, 15, 10, 0, 2, 6, 8, 11, 14, 14, 4, 15, 13, 5, 3, 4, 11, 11, 9, 4, 14, 3, 12, 11, 12, 6, 11, 7, 14, 1, 10, 3, 7, 10, 14, 1, 6, 14, 13, 15, 12, 5, 2, 7, 11, 11, 1, 2, 4, 11, 15, 12, 8, 5, 12, 6, 10, 15>>))))
    @@
    ((("(Some(\"6164e20ac3de15cbe6873d15338ae39392784d729dee7a4530ca5135588ce24e\"), 7)0af7ba66f9a27ed0e229221aada0cc88d5d6fd58f46f72eb626bd37b8e94efc80f953d12a939fe4ef354fff77564841627136a6bf3667b256c4a5cb6768788da0af7ba66f9a27ed0e229221aada0cc88d5d6fd58f46f72eb626bd37b8e94efc8"
        :> <<15, 3, 12, 2, 4, 9, 15, 7, 11, 14, 13, 8, 3, 0, 6, 4, 0, 7, 11, 6, 6, 5, 13, 1, 11, 1, 9, 9, 13, 7, 0, 8, 10, 6, 1, 13, 10, 2, 6, 2, 1, 8, 11, 10, 8, 4, 6, 1, 0, 14, 5, 8, 10, 15, 11, 1, 5, 2, 13, 8, 3, 4, 7, 5>>)
    @@
    (("(Some(\"6164e20ac3de15cbe6873d15338ae39392784d729dee7a4530ca5135588ce24e\"), 7)0af7ba66f9a27ed0e229221aada0cc88d5d6fd58f46f72eb626bd37b8e94efc80f953d12a939fe4ef354fff77564841627136a6bf3667b256c4a5cb6768788da0f953d12a939fe4ef354fff77564841627136a6bf3667b256c4a5cb6768788da"
        :> <<3, 14, 2, 6, 15, 15, 12, 0, 14, 10, 9, 8, 5, 10, 1, 1, 5, 10, 0, 10, 3, 0, 2, 5, 8, 12, 8, 4, 6, 9, 0, 3, 7, 6, 7, 10, 0, 15, 12, 2, 1, 8, 9, 15, 4, 2, 2, 1, 0, 15, 15, 4, 2, 1, 1, 1, 8, 6, 3, 0, 5, 5, 2, 8>>)
    @@
    ("(Some(\"6164e20ac3de15cbe6873d15338ae39392784d729dee7a4530ca5135588ce24e\"), 7)0af7ba66f9a27ed0e229221aada0cc88d5d6fd58f46f72eb626bd37b8e94efc80f953d12a939fe4ef354fff77564841627136a6bf3667b256c4a5cb6768788da140fc148a380d69b8753d296355d450a4c606dfa652482747ab694cd6ac23972"
        :> <<13, 13, 6, 4, 3, 12, 0, 3, 14, 12, 15, 5, 7, 15, 9, 5, 8, 8, 1, 5, 13, 14, 11, 8, 0, 1, 1, 12, 3, 2, 3, 0, 8, 12, 13, 13, 7, 0, 11, 1, 9, 0, 8, 2, 4, 5, 15, 11, 6, 12, 5, 0, 0, 15, 9, 3, 6, 8, 5, 3, 0, 4, 5, 12>>)))
    @@
    ((("(Some(\"6164e20ac3de15cbe6873d15338ae39392784d729dee7a4530ca5135588ce24e\"), 7)0af7ba66f9a27ed0e229221aada0cc88d5d6fd58f46f72eb626bd37b8e94efc80f953d12a939fe4ef354fff77564841627136a6bf3667b256c4a5cb6768788da7d3c95f98bd2b66af7c1d3a16cad13e01562539e02afc9695b86a5416092645f"
        :> <<1, 2, 8, 11, 4, 11, 9, 10, 8, 5, 6, 12, 11, 4, 1, 1, 6, 3, 12, 3, 11, 0, 6, 2, 3, 12, 2, 9, 10, 4, 10, 7, 7, 3, 10, 10, 11, 2, 12, 7, 5, 9, 15, 14, 4, 12, 4, 1, 4, 13, 12, 1, 12, 8, 1, 7, 4, 10, 1, 13, 13, 4, 3, 1>>)
    @@
    ("(Some(\"6164e20ac3de15cbe6873d15338ae39392784d729dee7a4530ca5135588ce24e\"), 7)0af7ba66f9a27ed0e229221aada0cc88d5d6fd58f46f72eb626bd37b8e94efc8140fc148a380d69b8753d296355d450a4c606dfa652482747ab694cd6ac23972"
        :> <<13, 3, 10, 2, 6, 3, 14, 0, 13, 14, 2, 5, 7, 7, 13, 10, 13, 9, 2, 8, 9, 7, 4, 15, 14, 7, 5, 11, 4, 9, 4, 9, 13, 13, 10, 3, 7, 13, 11, 4, 0, 8, 5, 1, 0, 8, 13, 4, 9, 3, 5, 3, 0, 14, 5, 13, 13, 12, 2, 3, 15, 12, 15, 5>>))
    @@
    (("(Some(\"6164e20ac3de15cbe6873d15338ae39392784d729dee7a4530ca5135588ce24e\"), 7)0af7ba66f9a27ed0e229221aada0cc88d5d6fd58f46f72eb626bd37b8e94efc8140fc148a380d69b8753d296355d450a4c606dfa652482747ab694cd6ac239720af7ba66f9a27ed0e229221aada0cc88d5d6fd58f46f72eb626bd37b8e94efc8"
        :> <<6, 4, 8, 7, 1, 12, 11, 2, 3, 7, 0, 10, 14, 1, 8, 5, 15, 7, 6, 7, 1, 11, 4, 0, 9, 12, 2, 10, 10, 0, 0, 12, 0, 6, 0, 15, 15, 8, 8, 2, 7, 10, 12, 5, 7, 12, 1, 7, 6, 5, 8, 3, 3, 15, 9, 11, 5, 6, 1, 2, 0, 8, 0, 6>>)
    @@
    ("(Some(\"6164e20ac3de15cbe6873d15338ae39392784d729dee7a4530ca5135588ce24e\"), 7)0af7ba66f9a27ed0e229221aada0cc88d5d6fd58f46f72eb626bd37b8e94efc8140fc148a380d69b8753d296355d450a4c606dfa652482747ab694cd6ac239720f953d12a939fe4ef354fff77564841627136a6bf3667b256c4a5cb6768788da"
        :> <<11, 14, 1, 4, 4, 9, 13, 7, 3, 9, 0, 10, 14, 11, 12, 14, 8, 11, 10, 14, 13, 2, 11, 7, 9, 7, 11, 8, 3, 0, 0, 13, 6, 0, 12, 9, 13, 0, 8, 9, 2, 4, 4, 12, 5, 10, 9, 0, 10, 7, 6, 15, 14, 8, 8, 10, 12, 12, 6, 10, 12, 13, 3, 0>>)))))))))
    @@
    (((((((("(Some(\"6164e20ac3de15cbe6873d15338ae39392784d729dee7a4530ca5135588ce24e\"), 7)0af7ba66f9a27ed0e229221aada0cc88d5d6fd58f46f72eb626bd37b8e94efc8140fc148a380d69b8753d296355d450a4c606dfa652482747ab694cd6ac23972140fc148a380d69b8753d296355d450a4c606dfa652482747ab694cd6ac23972"
        :> <<0, 12, 7, 2, 8, 2, 14, 10, 4, 0, 12, 11, 8, 9, 2, 0, 2, 6, 2, 7, 6, 9, 9, 13, 13, 15, 9, 0, 13, 11, 3, 11, 3, 7, 2, 1, 8, 9, 4, 1, 11, 10, 1, 4, 1, 3, 10, 10, 7, 9, 8, 7, 8, 0, 7, 0, 5, 12, 0, 10, 6, 5, 10, 5>>)
    @@
    (("(Some(\"6164e20ac3de15cbe6873d15338ae39392784d729dee7a4530ca5135588ce24e\"), 7)0af7ba66f9a27ed0e229221aada0cc88d5d6fd58f46f72eb626bd37b8e94efc8140fc148a380d69b8753d296355d450a4c606dfa652482747ab694cd6ac239727d3c95f98bd2b66af7c1d3a16cad13e01562539e02afc9695b86a5416092645f"
        :> <<14, 3, 1, 7, 8, 12, 6, 5, 3, 5, 15, 5, 5, 8, 1, 5, 4, 2, 13, 8, 8, 13, 8, 12, 3, 0, 3, 13, 14, 5, 14, 10, 11, 13, 11, 5, 15, 4, 14, 13, 12, 5, 10, 13, 0, 5, 3, 7, 6, 3, 7, 3, 0, 10, 4, 2, 5, 13, 13, 6, 5, 13, 13, 14>>)
    @@
    ("(Some(\"6164e20ac3de15cbe6873d15338ae39392784d729dee7a4530ca5135588ce24e\"), 7)0af7ba66f9a27ed0e229221aada0cc88d5d6fd58f46f72eb626bd37b8e94efc87d3c95f98bd2b66af7c1d3a16cad13e01562539e02afc9695b86a5416092645f"
        :> <<15, 6, 1, 11, 3, 3, 9, 11, 6, 14, 8, 4, 12, 2, 2, 4, 10, 14, 11, 14, 10, 1, 13, 13, 9, 13, 14, 13, 5, 10, 13, 8, 9, 1, 2, 10, 15, 1, 13, 6, 2, 3, 12, 3, 9, 1, 14, 7, 5, 8, 0, 10, 12, 8, 10, 4, 7, 10, 11, 15, 4, 14, 2, 5>>)))
    @@
    (("(Some(\"6164e20ac3de15cbe6873d15338ae39392784d729dee7a4530ca5135588ce24e\"), 7)0af7ba66f9a27ed0e229221aada0cc88d5d6fd58f46f72eb626bd37b8e94efc87d3c95f98bd2b66af7c1d3a16cad13e01562539e02afc9695b86a5416092645f0af7ba66f9a27ed0e229221aada0cc88d5d6fd58f46f72eb626bd37b8e94efc8"
        :> <<14, 7, 9, 13, 15, 7, 13, 13, 11, 15, 2, 7, 8, 10, 11, 1, 13, 8, 4, 2, 2, 2, 13, 14, 12, 15, 10, 6, 10, 12, 12, 10, 7, 12, 6, 13, 15, 5, 1, 13, 5, 5, 6, 14, 9, 4, 4, 14, 6, 10, 1, 9, 8, 15, 12, 0, 10, 4, 12, 4, 14, 6, 9, 6>>)
    @@
    (("(Some(\"6164e20ac3de15cbe6873d15338ae39392784d729dee7a4530ca5135588ce24e\"), 7)0af7ba66f9a27ed0e229221aada0cc88d5d6fd58f46f72eb626bd37b8e94efc87d3c95f98bd2b66af7c1d3a16cad13e01562539e02afc9695b86a5416092645f0f953d12a939fe4ef354fff77564841627136a6bf3667b256c4a5cb6768788da"
        :> <<13, 12, 10, 5, 6, 6, 11, 8, 9, 5, 3, 5, 7, 6, 6, 12, 14, 14, 11, 12, 5, 1, 8, 3, 1, 11, 3, 6, 14, 13, 2, 11, 8, 0, 10, 14, 6, 15, 14, 4, 7, 2, 6, 4, 5, 0, 5, 13, 1, 2, 2, 3, 8, 12, 7, 12, 3, 5, 10, 12, 4, 4, 8, 15>>)
    @@
    ("(Some(\"6164e20ac3de15cbe6873d15338ae39392784d729dee7a4530ca5135588ce24e\"), 7)0af7ba66f9a27ed0e229221aada0cc88d5d6fd58f46f72eb626bd37b8e94efc87d3c95f98bd2b66af7c1d3a16cad13e01562539e02afc9695b86a5416092645f140fc148a380d69b8753d296355d450a4c606dfa652482747ab694cd6ac23972"
        :> <<2, 4, 15, 0, 3, 7, 8, 0, 10, 7, 9, 0, 0, 14, 13, 7, 6, 1, 1, 12, 14, 8, 7, 12, 7, 10, 6, 11, 2, 10, 11, 0, 9, 13, 0, 13, 14, 13, 7, 9, 10, 13, 8, 1, 10, 2, 0, 10, 9, 6, 4, 4, 14, 10, 6, 12, 0, 13, 8, 3, 4, 3, 13, 5>>))))
    @@
    ((("(Some(\"6164e20ac3de15cbe6873d15338ae39392784d729dee7a4530ca5135588ce24e\"), 7)0af7ba66f9a27ed0e229221aada0cc88d5d6fd58f46f72eb626bd37b8e94efc87d3c95f98bd2b66af7c1d3a16cad13e01562539e02afc9695b86a5416092645f7d3c95f98bd2b66af7c1d3a16cad13e01562539e02afc9695b86a5416092645f"
        :> <<8, 3, 7, 2, 4, 3, 0, 8, 2, 4, 11, 7, 6, 7, 1, 14, 3, 1, 11, 11, 12, 4, 7, 7, 15, 11, 2, 0, 12, 10, 13, 10, 0, 5, 14, 2, 5, 15, 14, 12, 10, 11, 5, 10, 1, 12, 12, 14, 4, 9, 13, 14, 15, 1, 2, 14, 13, 14, 3, 6, 1, 3, 4, 1>>)
    @@
    (("(Some(\"6164e20ac3de15cbe6873d15338ae39392784d729dee7a4530ca5135588ce24e\"), 7)0f953d12a939fe4ef354fff77564841627136a6bf3667b256c4a5cb6768788da"
        :> <<14, 14, 2, 0, 0, 5, 14, 3, 1, 3, 3, 10, 8, 10, 9, 8, 9, 5, 15, 12, 0, 3, 0, 13, 11, 1, 11, 4, 10, 1, 5, 3, 3, 9, 10, 14, 9, 1, 9, 5, 13, 9, 4, 10, 3, 3, 5, 5, 7, 4, 7, 4, 12, 11, 3, 13, 11, 3, 15, 14, 14, 9, 10, 15>>)
    @@
    ("(Some(\"6164e20ac3de15cbe6873d15338ae39392784d729dee7a4530ca5135588ce24e\"), 7)0f953d12a939fe4ef354fff77564841627136a6bf3667b256c4a5cb6768788da0af7ba66f9a27ed0e229221aada0cc88d5d6fd58f46f72eb626bd37b8e94efc8"
        :> <<1, 5, 4, 8, 11, 13, 8, 13, 11, 6, 0, 14, 11, 8, 12, 10, 13, 1, 7, 6, 6, 8, 5, 10, 15, 11, 1, 4, 3, 9, 10, 2, 1, 5, 1, 1, 3, 1, 8, 14, 4, 1, 14, 13, 5, 13, 6, 13, 4, 14, 3, 9, 2, 7, 15, 7, 2, 3, 13, 1, 15, 13, 3, 5>>)))
    @@
    ((("(Some(\"6164e20ac3de15cbe6873d15338ae39392784d729dee7a4530ca5135588ce24e\"), 7)0f953d12a939fe4ef354fff77564841627136a6bf3667b256c4a5cb6768788da0af7ba66f9a27ed0e229221aada0cc88d5d6fd58f46f72eb626bd37b8e94efc80af7ba66f9a27ed0e229221aada0cc88d5d6fd58f46f72eb626bd37b8e94efc8"
        :> <<15, 5, 9, 2, 8, 15, 13, 0, 8, 3, 9, 4, 6, 8, 0, 14, 3, 11, 14, 9, 8, 11, 13, 13, 3, 7, 4, 1, 2, 0, 14, 1, 5, 8, 2, 5, 9, 0, 11, 11, 12, 10, 1, 14, 4, 15, 8, 14, 3, 0, 8, 4, 3, 1, 6, 14, 14, 7, 8, 1, 12, 1, 12, 8>>)
    @@
    ("(Some(\"6164e20ac3de15cbe6873d15338ae39392784d729dee7a4530ca5135588ce24e\"), 7)0f953d12a939fe4ef354fff77564841627136a6bf3667b256c4a5cb6768788da0af7ba66f9a27ed0e229221aada0cc88d5d6fd58f46f72eb626bd37b8e94efc80f953d12a939fe4ef354fff77564841627136a6bf3667b256c4a5cb6768788da"
        :> <<5, 2, 6, 12, 5, 7, 13, 11, 4, 2, 1, 4, 8, 2, 7, 12, 1, 13, 6, 15, 5, 3, 11, 12, 15, 11, 1, 1, 3, 2, 11, 7, 8, 10, 9, 7, 15, 11, 8, 0, 13, 15, 10, 10, 5, 4, 13, 4, 8, 10, 8, 15, 15, 0, 6, 3, 14, 12, 5, 1, 12, 1, 9, 1>>))
    @@
    (("(Some(\"6164e20ac3de15cbe6873d15338ae39392784d729dee7a4530ca5135588ce24e\"), 7)0f953d12a939fe4ef354fff77564841627136a6bf3667b256c4a5cb6768788da0af7ba66f9a27ed0e229221aada0cc88d5d6fd58f46f72eb626bd37b8e94efc8140fc148a380d69b8753d296355d450a4c606dfa652482747ab694cd6ac23972"
        :> <<0, 11, 11, 4, 6, 11, 0, 6, 2, 11, 11, 15, 12, 12, 2, 10, 15, 6, 12, 1, 0, 11, 14, 0, 9, 10, 9, 1, 12, 0, 8, 2, 6, 13, 0, 11, 5, 0, 2, 6, 9, 4, 3, 8, 8, 2, 4, 6, 1, 7, 0, 10, 11, 6, 13, 3, 8, 15, 7, 15, 10, 3, 2, 11>>)
    @@
    ("(Some(\"6164e20ac3de15cbe6873d15338ae39392784d729dee7a4530ca5135588ce24e\"), 7)0f953d12a939fe4ef354fff77564841627136a6bf3667b256c4a5cb6768788da0af7ba66f9a27ed0e229221aada0cc88d5d6fd58f46f72eb626bd37b8e94efc87d3c95f98bd2b66af7c1d3a16cad13e01562539e02afc9695b86a5416092645f"
        :> <<14, 7, 2, 3, 1, 2, 2, 2, 1, 3, 4, 9, 9, 9, 3, 6, 2, 10, 0, 0, 10, 9, 1, 9, 1, 1, 11, 2, 5, 14, 0, 4, 5, 7, 2, 4, 0, 11, 6, 3, 8, 6, 6, 0, 2, 11, 5, 0, 5, 2, 4, 3, 12, 5, 2, 3, 1, 11, 5, 5, 5, 11, 2, 2>>)))))
    @@
    (((("(Some(\"6164e20ac3de15cbe6873d15338ae39392784d729dee7a4530ca5135588ce24e\"), 7)0f953d12a939fe4ef354fff77564841627136a6bf3667b256c4a5cb6768788da0f953d12a939fe4ef354fff77564841627136a6bf3667b256c4a5cb6768788da"
        :> <<11, 4, 14, 4, 14, 2, 6, 3, 7, 15, 3, 7, 7, 14, 7, 13, 1, 0, 11, 9, 9, 2, 15, 10, 14, 5, 14, 13, 0, 6, 9, 5, 15, 11, 10, 6, 9, 10, 2, 5, 15, 1, 2, 9, 12, 10, 13, 5, 6, 9, 8, 3, 1, 5, 6, 7, 8, 5, 3, 1, 3, 5, 12, 14>>)
    @@
    (("(Some(\"6164e20ac3de15cbe6873d15338ae39392784d729dee7a4530ca5135588ce24e\"), 7)0f953d12a939fe4ef354fff77564841627136a6bf3667b256c4a5cb6768788da0f953d12a939fe4ef354fff77564841627136a6bf3667b256c4a5cb6768788da0af7ba66f9a27ed0e229221aada0cc88d5d6fd58f46f72eb626bd37b8e94efc8"
        :> <<2, 12, 6, 2, 12, 9, 7, 2, 15, 13, 9, 2, 11, 0, 9, 2, 11, 11, 15, 11, 13, 13, 3, 2, 8, 13, 8, 4, 8, 9, 12, 7, 12, 9, 2, 1, 4, 0, 15, 10, 8, 0, 6, 4, 0, 10, 10, 8, 3, 11, 1, 15, 4, 14, 0, 2, 9, 6, 14, 13, 15, 3, 13, 4>>)
    @@
    ("(Some(\"6164e20ac3de15cbe6873d15338ae39392784d729dee7a4530ca5135588ce24e\"), 7)0f953d12a939fe4ef354fff77564841627136a6bf3667b256c4a5cb6768788da0f953d12a939fe4ef354fff77564841627136a6bf3667b256c4a5cb6768788da0f953d12a939fe4ef354fff77564841627136a6bf3667b256c4a5cb6768788da"
        :> <<9, 6, 12, 2, 11, 3, 6, 11, 11, 5, 12, 7, 1, 15, 4, 1, 4, 8, 10, 12, 1, 1, 7, 1, 6, 1, 14, 13, 5, 10, 8, 7, 0, 2, 4, 1, 0, 0, 7, 3, 5, 14, 1, 14, 5, 1, 0, 1, 1, 0, 4, 3, 4, 8, 0, 14, 12, 13, 8, 4, 6, 13, 8, 2>>)))
    @@
    (("(Some(\"6164e20ac3de15cbe6873d15338ae39392784d729dee7a4530ca5135588ce24e\"), 7)0f953d12a939fe4ef354fff77564841627136a6bf3667b256c4a5cb6768788da0f953d12a939fe4ef354fff77564841627136a6bf3667b256c4a5cb6768788da140fc148a380d69b8753d296355d450a4c606dfa652482747ab694cd6ac23972"
        :> <<3, 4, 15, 8, 1, 12, 7, 2, 14, 7, 9, 8, 3, 0, 1, 9, 3, 10, 11, 4, 14, 1, 2, 15, 9, 10, 10, 10, 11, 11, 15, 13, 13, 12, 6, 6, 1, 3, 11, 3, 11, 1, 12, 6, 8, 7, 10, 8, 10, 1, 4, 8, 3, 10, 15, 10, 8, 15, 14, 10, 1, 13, 15, 2>>)
    @@
    (("(Some(\"6164e20ac3de15cbe6873d15338ae39392784d729dee7a4530ca5135588ce24e\"), 7)0f953d12a939fe4ef354fff77564841627136a6bf3667b256c4a5cb6768788da0f953d12a939fe4ef354fff77564841627136a6bf3667b256c4a5cb6768788da7d3c95f98bd2b66af7c1d3a16cad13e01562539e02afc9695b86a5416092645f"
        :> <<14, 1, 11, 2, 2, 12, 4, 0, 13, 13, 12, 13, 7, 9, 15, 2, 13, 12, 7, 10, 7, 14, 5, 5, 10, 12, 11, 12, 11, 12, 5, 9, 13, 9, 13, 3, 8, 10, 15, 6, 4, 12, 9, 3, 10, 0, 0, 11, 12, 8, 2, 15, 14, 7, 9, 5, 5, 4, 3, 6, 5, 13, 8, 13>>)
    @@
    ("(Some(\"6164e20ac3de15cbe6873d15338ae39392784d729dee7a4530ca5135588ce24e\"), 7)0f953d12a939fe4ef354fff77564841627136a6bf3667b256c4a5cb6768788da140fc148a380d69b8753d296355d450a4c606dfa652482747ab694cd6ac23972"
        :> <<4, 0, 11, 4, 4, 0, 1, 3, 15, 1, 15, 10, 2, 15, 5, 5, 12, 7, 14, 1, 3, 13, 14, 0, 3, 5, 4, 7, 11, 9, 4, 3, 6, 12, 8, 10, 14, 12, 8, 0, 0, 7, 4, 12, 7, 2, 3, 7, 12, 15, 5, 8, 5, 0, 14, 7, 2, 6, 9, 3, 1, 9, 13, 9>>))))
    @@
    ((("(Some(\"6164e20ac3de15cbe6873d15338ae39392784d729dee7a4530ca5135588ce24e\"), 7)0f953d12a939fe4ef354fff77564841627136a6bf3667b256c4a5cb6768788da140fc148a380d69b8753d296355d450a4c606dfa652482747ab694cd6ac239720af7ba66f9a27ed0e229221aada0cc88d5d6fd58f46f72eb626bd37b8e94efc8"
        :> <<6, 6, 9, 9, 6, 9, 1, 5, 4, 13, 12, 0, 10, 6, 13, 6, 3, 13, 5, 11, 12, 2, 10, 15, 5, 14, 14, 1, 10, 8, 11, 9, 11, 4, 0, 4, 2, 9, 13, 0, 7, 3, 11, 14, 4, 12, 13, 7, 11, 12, 11, 11, 11, 9, 0, 1, 2, 2, 3, 13, 10, 13, 11, 2>>)
    @@
    (("(Some(\"6164e20ac3de15cbe6873d15338ae39392784d729dee7a4530ca5135588ce24e\"), 7)0f953d12a939fe4ef354fff77564841627136a6bf3667b256c4a5cb6768788da140fc148a380d69b8753d296355d450a4c606dfa652482747ab694cd6ac239720f953d12a939fe4ef354fff77564841627136a6bf3667b256c4a5cb6768788da"
        :> <<0, 14, 15, 4, 10, 10, 3, 8, 1, 7, 11, 9, 15, 15, 14, 11, 6, 0, 2, 1, 6, 10, 11, 12, 3, 15, 9, 0, 12, 7, 6, 5, 7, 1, 15, 11, 7, 3, 7, 4, 13, 6, 12, 12, 15, 2, 9, 1, 8, 14, 11, 3, 5, 14, 0, 3, 14, 12, 0, 14, 9, 1, 13, 4>>)
    @@
    ("(Some(\"6164e20ac3de15cbe6873d15338ae39392784d729dee7a4530ca5135588ce24e\"), 7)0f953d12a939fe4ef354fff77564841627136a6bf3667b256c4a5cb6768788da140fc148a380d69b8753d296355d450a4c606dfa652482747ab694cd6ac23972140fc148a380d69b8753d296355d450a4c606dfa652482747ab694cd6ac23972"
        :> <<6, 4, 7, 10, 9, 10, 11, 6, 4, 4, 1, 1, 4, 1, 13, 9, 10, 2, 3, 7, 14, 12, 2, 7, 2, 14, 11, 14, 13, 14, 7, 6, 0, 3, 4, 8, 5, 3, 5, 14, 13, 8, 5, 13, 7, 13, 0, 1, 0, 5, 1, 4, 5, 11, 14, 11, 8, 4, 12, 5, 9, 5, 12, 8>>)))
    @@
    ((("(Some(\"6164e20ac3de15cbe6873d15338ae39392784d729dee7a4530ca5135588ce24e\"), 7)0f953d12a939fe4ef354fff77564841627136a6bf3667b256c4a5cb6768788da140fc148a380d69b8753d296355d450a4c606dfa652482747ab694cd6ac239727d3c95f98bd2b66af7c1d3a16cad13e01562539e02afc9695b86a5416092645f"
        :> <<11, 5, 3, 12, 2, 13, 4, 7, 7, 3, 9, 4, 0, 7, 10, 6, 10, 4, 14, 1, 13, 9, 4, 5, 2, 8, 13, 0, 13, 13, 14, 14, 4, 10, 12, 3, 12, 3, 1, 9, 6, 14, 8, 0, 2, 10, 0, 7, 4, 0, 5, 2, 4, 15, 7, 5, 10, 10, 5, 13, 9, 2, 10, 6>>)
    @@
    ("(Some(\"6164e20ac3de15cbe6873d15338ae39392784d729dee7a4530ca5135588ce24e\"), 7)0f953d12a939fe4ef354fff77564841627136a6bf3667b256c4a5cb6768788da7d3c95f98bd2b66af7c1d3a16cad13e01562539e02afc9695b86a5416092645f"
        :> <<8, 1, 15, 15, 15, 14, 2, 13, 4, 2, 8, 2, 8, 12, 9, 9, 14, 6, 6, 13, 8, 11, 4, 1, 6, 2, 15, 5, 2, 2, 13, 11, 11, 4, 15, 7, 7, 11, 8, 10, 9, 14, 9, 7, 3, 9, 11, 11, 11, 4, 1, 11, 6, 5, 11, 13, 5, 3, 5, 4, 10, 10, 9, 9>>))
    @@
    (("(Some(\"6164e20ac3de15cbe6873d15338ae39392784d729dee7a4530ca5135588ce24e\"), 7)0f953d12a939fe4ef354fff77564841627136a6bf3667b256c4a5cb6768788da7d3c95f98bd2b66af7c1d3a16cad13e01562539e02afc9695b86a5416092645f0af7ba66f9a27ed0e229221aada0cc88d5d6fd58f46f72eb626bd37b8e94efc8"
        :> <<1, 2, 5, 13, 6, 2, 9, 9, 1, 9, 6, 1, 4, 0, 0, 7, 3, 10, 7, 1, 4, 5, 15, 13, 4, 2, 2, 14, 0, 10, 1, 6, 0, 10, 15, 5, 4, 6, 14, 11, 3, 14, 3, 5, 4, 13, 15, 2, 12, 1, 15, 8, 11, 2, 9, 6, 4, 15, 2, 3, 8, 5, 12, 2>>)
    @@
    ("(Some(\"6164e20ac3de15cbe6873d15338ae39392784d729dee7a4530ca5135588ce24e\"), 7)0f953d12a939fe4ef354fff77564841627136a6bf3667b256c4a5cb6768788da7d3c95f98bd2b66af7c1d3a16cad13e01562539e02afc9695b86a5416092645f0f953d12a939fe4ef354fff77564841627136a6bf3667b256c4a5cb6768788da"
        :> <<11, 12, 4, 5, 5, 7, 11, 12, 9, 10, 5, 11, 8, 10, 3, 15, 5, 13, 15, 3, 12, 5, 15, 1, 2, 14, 13, 5, 4, 1, 7, 15, 6, 4, 14, 2, 12, 3, 8, 7, 1, 15, 15, 5, 12, 11, 4, 2, 6, 13, 15, 7, 6, 10, 7, 5, 10, 5, 10, 3, 4, 0, 3, 5>>))))))
    @@
    ((((("(Some(\"6164e20ac3de15cbe6873d15338ae39392784d729dee7a4530ca5135588ce24e\"), 7)0f953d12a939fe4ef354fff77564841627136a6bf3667b256c4a5cb6768788da7d3c95f98bd2b66af7c1d3a16cad13e01562539e02afc9695b86a5416092645f140fc148a380d69b8753d296355d450a4c606dfa652482747ab694cd6ac23972"
        :> <<12, 9, 14, 15, 8, 14, 0, 3, 7, 13, 14, 1, 4, 12, 2, 11, 15, 1, 8, 3, 9, 8, 12, 7, 10, 15, 13, 0, 13, 5, 11, 9, 5, 15, 11, 8, 4, 4, 14, 2, 9, 11, 6, 15, 2, 1, 13, 3, 9, 14, 9, 10, 5, 11, 1, 6, 5, 4, 9, 5, 4, 11, 9, 8>>)
    @@
    (("(Some(\"6164e20ac3de15cbe6873d15338ae39392784d729dee7a4530ca5135588ce24e\"), 7)0f953d12a939fe4ef354fff77564841627136a6bf3667b256c4a5cb6768788da7d3c95f98bd2b66af7c1d3a16cad13e01562539e02afc9695b86a5416092645f7d3c95f98bd2b66af7c1d3a16cad13e01562539e02afc9695b86a5416092645f"
        :> <<4, 12, 10, 7, 2, 13, 0, 6, 9, 7, 12, 11, 6, 11, 1, 0, 1, 12, 5, 9, 3, 6, 12, 5, 12, 8, 5, 9, 0, 13, 7, 2, 4, 10, 1, 10, 4, 11, 8, 3, 11, 9, 0, 11, 1, 11, 5, 1, 2, 6, 8, 4, 5, 7, 10, 15, 6, 10, 11, 0, 15, 2, 7, 3>>)
    @@
    ("(Some(\"6164e20ac3de15cbe6873d15338ae39392784d729dee7a4530ca5135588ce24e\"), 7)140fc148a380d69b8753d296355d450a4c606dfa652482747ab694cd6ac23972"
        :> <<12, 15, 1, 1, 1, 7, 15, 5, 5, 12, 12, 3, 13, 8, 4, 11, 8, 2, 6, 2, 14, 6, 3, 4, 2, 14, 2, 4, 12, 4, 9, 4, 14, 3, 3, 2, 2, 3, 6, 8, 3, 1, 2, 2, 10, 8, 8, 5, 11, 14, 5, 14, 6, 0, 4, 11, 5, 5, 12, 15, 8, 6, 4, 14>>)))
    @@
    (("(Some(\"6164e20ac3de15cbe6873d15338ae39392784d729dee7a4530ca5135588ce24e\"), 7)140fc148a380d69b8753d296355d450a4c606dfa652482747ab694cd6ac239720af7ba66f9a27ed0e229221aada0cc88d5d6fd58f46f72eb626bd37b8e94efc8"
        :> <<14, 5, 5, 6, 8, 11, 0, 2, 13, 6, 0, 8, 10, 5, 11, 11, 11, 3, 2, 2, 7, 1, 7, 0, 4, 13, 2, 2, 4, 8, 6, 2, 9, 11, 7, 1, 4, 13, 2, 5, 6, 6, 0, 14, 6, 6, 12, 11, 1, 15, 12, 10, 8, 3, 0, 7, 9, 12, 15, 3, 9, 0, 3, 9>>)
    @@
    (("(Some(\"6164e20ac3de15cbe6873d15338ae39392784d729dee7a4530ca5135588ce24e\"), 7)140fc148a380d69b8753d296355d450a4c606dfa652482747ab694cd6ac239720af7ba66f9a27ed0e229221aada0cc88d5d6fd58f46f72eb626bd37b8e94efc80af7ba66f9a27ed0e229221aada0cc88d5d6fd58f46f72eb626bd37b8e94efc8"
        :> <<6, 9, 15, 3, 13, 14, 2, 4, 15, 15, 0, 4, 0, 0, 9, 15, 15, 2, 12, 13, 4, 12, 14, 2, 9, 11, 4, 12, 10, 15, 2, 15, 7, 6, 10, 5, 12, 2, 12, 13, 15, 9, 7, 14, 15, 4, 1, 11, 7, 3, 14, 14, 12, 8, 13, 9, 12, 1, 14, 1, 10, 0, 12, 14>>)
    @@
    ("(Some(\"6164e20ac3de15cbe6873d15338ae39392784d729dee7a4530ca5135588ce24e\"), 7)140fc148a380d69b8753d296355d450a4c606dfa652482747ab694cd6ac239720af7ba66f9a27ed0e229221aada0cc88d5d6fd58f46f72eb626bd37b8e94efc80f953d12a939fe4ef354fff77564841627136a6bf3667b256c4a5cb6768788da"
        :> <<2, 3, 5, 10, 14, 13, 13, 15, 14, 10, 10, 15, 3, 13, 8, 8, 0, 0, 12, 8, 6, 14, 0, 9, 4, 0, 13, 13, 4, 5, 7, 14, 12, 12, 1, 15, 8, 8, 12, 1, 2, 15, 9, 13, 6, 1, 3, 1, 10, 1, 13, 14, 3, 2, 2, 10, 9, 13, 10, 1, 10, 5, 10, 14>>))))
    @@
    ((("(Some(\"6164e20ac3de15cbe6873d15338ae39392784d729dee7a4530ca5135588ce24e\"), 7)140fc148a380d69b8753d296355d450a4c606dfa652482747ab694cd6ac239720af7ba66f9a27ed0e229221aada0cc88d5d6fd58f46f72eb626bd37b8e94efc8140fc148a380d69b8753d296355d450a4c606dfa652482747ab694cd6ac23972"
        :> <<4, 3, 12, 10, 6, 8, 8, 9, 7, 15, 7, 10, 10, 5, 9, 11, 7, 13, 9, 11, 14, 15, 1, 2, 0, 14, 14, 6, 6, 12, 14, 9, 12, 9, 14, 7, 4, 4, 10, 9, 13, 3, 3, 2, 12, 0, 14, 15, 13, 13, 2, 1, 3, 3, 11, 13, 5, 13, 2, 8, 9, 14, 2, 3>>)
    @@
    (("(Some(\"6164e20ac3de15cbe6873d15338ae39392784d729dee7a4530ca5135588ce24e\"), 7)140fc148a380d69b8753d296355d450a4c606dfa652482747ab694cd6ac239720af7ba66f9a27ed0e229221aada0cc88d5d6fd58f46f72eb626bd37b8e94efc87d3c95f98bd2b66af7c1d3a16cad13e01562539e02afc9695b86a5416092645f"
        :> <<12, 10, 9, 14, 1, 6, 4, 5, 4, 1, 10, 8, 5, 0, 9, 15, 15, 3, 15, 0, 4, 8, 6, 4, 8, 1, 3, 7, 13, 6, 13, 14, 0, 8, 2, 10, 3, 15, 5, 2, 3, 7, 14, 15, 15, 9, 15, 2, 14, 10, 8, 1, 5, 9, 9, 1, 5, 15, 11, 13, 7, 6, 10, 10>>)
    @@
    ("(Some(\"6164e20ac3de15cbe6873d15338ae39392784d729dee7a4530ca5135588ce24e\"), 7)140fc148a380d69b8753d296355d450a4c606dfa652482747ab694cd6ac239720f953d12a939fe4ef354fff77564841627136a6bf3667b256c4a5cb6768788da"
        :> <<5, 2, 7, 2, 0, 14, 5, 14, 4, 0, 10, 15, 4, 9, 1, 12, 15, 3, 5, 10, 9, 4, 2, 3, 12, 14, 15, 15, 15, 4, 9, 4, 9, 1, 7, 6, 7, 11, 11, 1, 12, 13, 4, 0, 2, 5, 15, 1, 5, 1, 13, 4, 5, 8, 1, 11, 4, 1, 1, 0, 13, 2, 6, 7>>)))
    @@
    ((("(Some(\"6164e20ac3de15cbe6873d15338ae39392784d729dee7a4530ca5135588ce24e\"), 7)140fc148a380d69b8753d296355d450a4c606dfa652482747ab694cd6ac239720f953d12a939fe4ef354fff77564841627136a6bf3667b256c4a5cb6768788da0af7ba66f9a27ed0e229221aada0cc88d5d6fd58f46f72eb626bd37b8e94efc8"
        :> <<7, 8, 3, 3, 5, 0, 11, 4, 7, 15, 8, 6, 0, 10, 15, 0, 7, 1, 0, 4, 12, 0, 10, 10, 2, 12, 5, 7, 7, 0, 5, 5, 4, 2, 3, 1, 9, 5, 1, 14, 15, 15, 10, 13, 7, 15, 14, 14, 1, 1, 7, 4, 5, 8, 0, 6, 8, 5, 8, 4, 10, 6, 4, 0>>)
    @@
    ("(Some(\"6164e20ac3de15cbe6873d15338ae39392784d729dee7a4530ca5135588ce24e\"), 7)140fc148a380d69b8753d296355d450a4c606dfa652482747ab694cd6ac239720f953d12a939fe4ef354fff77564841627136a6bf3667b256c4a5cb6768788da0f953d12a939fe4ef354fff77564841627136a6bf3667b256c4a5cb6768788da"
        :> <<2, 2, 13, 4, 4, 11, 9, 14, 11, 9, 6, 8, 7, 6, 10, 2, 1, 9, 11, 3, 3, 1, 15, 10, 5, 15, 3, 5, 15, 7, 1, 5, 12, 13, 6, 1, 1, 4, 15, 5, 5, 5, 3, 0, 12, 10, 14, 7, 14, 11, 5, 4, 0, 0, 10, 14, 3, 9, 15, 7, 0, 6, 1, 2>>))
    @@
    (("(Some(\"6164e20ac3de15cbe6873d15338ae39392784d729dee7a4530ca5135588ce24e\"), 7)140fc148a380d69b8753d296355d450a4c606dfa652482747ab694cd6ac239720f953d12a939fe4ef354fff77564841627136a6bf3667b256c4a5cb6768788da140fc148a380d69b8753d296355d450a4c606dfa652482747ab694cd6ac23972"
        :> <<12, 0, 7, 13, 10, 15, 2, 8, 5, 14, 10, 15, 8, 8, 13, 11, 0, 7, 12, 1, 14, 13, 3, 11, 7, 4, 2, 0, 13, 10, 14, 4, 9, 12, 14, 0, 13, 13, 14, 15, 7, 14, 2, 3, 13, 8, 13, 2, 8, 13, 5, 1, 11, 2, 4, 8, 6, 8, 12, 5, 11, 5, 5, 15>>)
    @@
    ("(Some(\"6164e20ac3de15cbe6873d15338ae39392784d729dee7a4530ca5135588ce24e\"), 7)140fc148a380d69b8753d296355d450a4c606dfa652482747ab694cd6ac239720f953d12a939fe4ef354fff77564841627136a6bf3667b256c4a5cb6768788da7d3c95f98bd2b66af7c1d3a16cad13e01562539e02afc9695b86a5416092645f"
        :> <<11, 10, 9, 8, 13, 8, 8, 9, 2, 5, 15, 4, 7, 1, 10, 9, 0, 12, 7, 9, 4, 0, 11, 8, 7, 4, 13, 14, 8, 9, 0, 4, 10, 9, 10, 4, 0, 8, 5, 10, 1, 9, 10, 1, 2, 3, 8, 14, 4, 13, 15, 7, 10, 5, 8, 1, 15, 13, 11, 11, 13, 6, 15, 14>>)))))
    @@
    (((("(Some(\"6164e20ac3de15cbe6873d15338ae39392784d729dee7a4530ca5135588ce24e\"), 7)140fc148a380d69b8753d296355d450a4c606dfa652482747ab694cd6ac23972140fc148a380d69b8753d296355d450a4c606dfa652482747ab694cd6ac23972"
        :> <<2, 11, 14, 8, 14, 8, 7, 4, 11, 11, 14, 1, 3, 11, 13, 7, 12, 3, 5, 9, 12, 3, 13, 13, 5, 12, 2, 8, 14, 11, 10, 7, 4, 10, 10, 12, 3, 9, 5, 0, 4, 15, 7, 13, 4, 3, 11, 13, 15, 0, 14, 9, 6, 0, 4, 4, 8, 10, 13, 6, 5, 6, 14, 6>>)
    @@
    (("(Some(\"6164e20ac3de15cbe6873d15338ae39392784d729dee7a4530ca5135588ce24e\"), 7)140fc148a380d69b8753d296355d450a4c606dfa652482747ab694cd6ac23972140fc148a380d69b8753d296355d450a4c606dfa652482747ab694cd6ac239720af7ba66f9a27ed0e229221aada0cc88d5d6fd58f46f72eb626bd37b8e94efc8"
        :> <<13, 3, 8, 13, 4, 15, 10, 8, 5, 4, 2, 0, 7, 10, 1, 8, 13, 4, 10, 8, 11, 3, 2, 7, 2, 6, 4, 8, 4, 3, 0, 5, 1, 1, 14, 5, 6, 9, 15, 3, 5, 5, 13, 4, 3, 6, 7, 13, 10, 4, 12, 14, 11, 15, 0, 7, 15, 1, 12, 13, 2, 4, 14, 4>>)
    @@
    ("(Some(\"6164e20ac3de15cbe6873d15338ae39392784d729dee7a4530ca5135588ce24e\"), 7)140fc148a380d69b8753d296355d450a4c606dfa652482747ab694cd6ac23972140fc148a380d69b8753d296355d450a4c606dfa652482747ab694cd6ac239720f953d12a939fe4ef354fff77564841627136a6bf3667b256c4a5cb6768788da"
        :> <<10, 0, 13, 9, 12, 14, 6, 4, 6, 12, 5, 15, 5, 14, 15, 0, 10, 11, 9, 0, 12, 10, 7, 11, 3, 10, 9, 5, 14, 12, 13, 1, 6, 4, 7, 11, 10, 1, 11, 6, 15, 9, 0, 7, 6, 14, 10, 1, 15, 10, 0, 9, 3, 7, 15, 8, 0, 10, 13, 1, 1, 14, 14, 11>>)))
    @@
    (("(Some(\"6164e20ac3de15cbe6873d15338ae39392784d729dee7a4530ca5135588ce24e\"), 7)140fc148a380d69b8753d296355d450a4c606dfa652482747ab694cd6ac23972140fc148a380d69b8753d296355d450a4c606dfa652482747ab694cd6ac23972140fc148a380d69b8753d296355d450a4c606dfa652482747ab694cd6ac23972"
        :> <<8, 4, 6, 1, 15, 14, 14, 5, 5, 14, 8, 8, 12, 15, 12, 4, 15, 6, 6, 6, 6, 3, 3, 15, 4, 15, 4, 9, 11, 13, 12, 5, 6, 1, 7, 11, 3, 9, 8, 0, 1, 15, 0, 1, 0, 0, 4, 10, 10, 15, 3, 1, 12, 12, 4, 10, 0, 2, 8, 6, 11, 1, 7, 13>>)
    @@
    (("(Some(\"6164e20ac3de15cbe6873d15338ae39392784d729dee7a4530ca5135588ce24e\"), 7)140fc148a380d69b8753d296355d450a4c606dfa652482747ab694cd6ac23972140fc148a380d69b8753d296355d450a4c606dfa652482747ab694cd6ac239727d3c95f98bd2b66af7c1d3a16cad13e01562539e02afc9695b86a5416092645f"
        :> <<3, 11, 7, 9, 5, 8, 12, 0, 12, 13, 6, 8, 3, 9, 8, 14, 7, 7, 11, 8, 12, 9, 6, 7, 8, 3, 14, 1, 7, 10, 10, 0, 14, 0, 13, 13, 4, 8, 9, 4, 6, 15, 14, 13, 15, 11, 14, 7, 11, 6, 14, 0, 9, 9, 11, 7, 2, 8, 0, 9, 1, 6, 2, 13>>)
    @@
    ("(Some(\"6164e20ac3de15cbe6873d15338ae39392784d729dee7a4530ca5135588ce24e\"), 7)140fc148a380d69b8753d296355d450a4c606dfa652482747ab694cd6ac239727d3c95f98bd2b66af7c1d3a16cad13e01562539e02afc9695b86a5416092645f"
        :> <<6, 2, 3, 15, 0, 9, 9, 5, 9, 2, 9, 11, 10, 15, 5, 1, 11, 7, 5, 4, 11, 4, 7, 1, 10, 1, 12, 2, 10, 8, 8, 14, 7, 8, 14, 13, 10, 9, 2, 9, 1, 15, 10, 7, 2, 3, 10, 8, 13, 8, 9, 9, 4, 12, 3, 5, 5, 12, 2, 7, 7, 13, 3, 12>>))))
    @@
    ((("(Some(\"6164e20ac3de15cbe6873d15338ae39392784d729dee7a4530ca5135588ce24e\"), 7)140fc148a380d69b8753d296355d450a4c606dfa652482747ab694cd6ac239727d3c95f98bd2b66af7c1d3a16cad13e01562539e02afc9695b86a5416092645f0af7ba66f9a27ed0e229221aada0cc88d5d6fd58f46f72eb626bd37b8e94efc8"
        :> <<10, 13, 15, 12, 14, 4, 11, 12, 11, 10, 9, 0, 10, 12, 13, 10, 6, 13, 3, 10, 5, 0, 9, 14, 7, 1, 2, 7, 15, 0, 8, 3, 8, 4, 9, 12, 4, 12, 6, 6, 7, 3, 0, 4, 4, 2, 15, 9, 3, 8, 15, 12, 14, 2, 11, 1, 8, 2, 11, 14, 14, 7, 3, 2>>)
    @@
    (("(Some(\"6164e20ac3de15cbe6873d15338ae39392784d729dee7a4530ca5135588ce24e\"), 7)140fc148a380d69b8753d296355d450a4c606dfa652482747ab694cd6ac239727d3c95f98bd2b66af7c1d3a16cad13e01562539e02afc9695b86a5416092645f0f953d12a939fe4ef354fff77564841627136a6bf3667b256c4a5cb6768788da"
        :> <<14, 2, 9, 8, 2, 5, 5, 15, 9, 12, 4, 8, 11, 3, 0, 7, 7, 10, 12, 5, 15, 15, 7, 2, 10, 6, 14, 3, 10, 14, 13, 14, 8, 8, 5, 15, 14, 3, 6, 14, 7, 14, 0, 15, 5, 14, 9, 12, 3, 3, 5, 8, 6, 6, 10, 14, 13, 13, 14, 10, 7, 13, 12, 13>>)
    @@
    ("(Some(\"6164e20ac3de15cbe6873d15338ae39392784d729dee7a4530ca5135588ce24e\"), 7)140fc148a380d69b8753d296355d450a4c606dfa652482747ab694cd6ac239727d3c95f98bd2b66af7c1d3a16cad13e01562539e02afc9695b86a5416092645f140fc148a380d69b8753d296355d450a4c606dfa652482747ab694cd6ac23972"
        :> <<9, 8, 1, 10, 8, 10, 4, 4, 8, 0, 10, 13, 6, 0, 7, 9, 13, 8, 10, 3, 7, 9, 15, 13, 9, 3, 10, 3, 13, 5, 0, 3, 9, 6, 15, 11, 12, 0, 8, 4, 3, 2, 9, 4, 4, 14, 0, 3, 2, 9, 13, 7, 10, 6, 1, 15, 8, 15, 3, 11, 2, 0, 15, 5>>)))
    @@
    ((("(Some(\"6164e20ac3de15cbe6873d15338ae39392784d729dee7a4530ca5135588ce24e\"), 7)140fc148a380d69b8753d296355d450a4c606dfa652482747ab694cd6ac239727d3c95f98bd2b66af7c1d3a16cad13e01562539e02afc9695b86a5416092645f7d3c95f98bd2b66af7c1d3a16cad13e01562539e02afc9695b86a5416092645f"
        :> <<0, 9, 11, 2, 8, 4, 0, 11, 8, 4, 7, 11, 12, 4, 15, 0, 3, 13, 10, 2, 15, 1, 3, 12, 7, 1, 9, 10, 9, 3, 11, 9, 12, 3, 14, 13, 7, 13, 13, 11, 7, 9, 0, 4, 2, 2, 10, 13, 11, 2, 0, 10, 15, 1, 5, 11, 13, 15, 4, 2, 5, 9, 11, 15>>)
    @@
    ("(Some(\"6164e20ac3de15cbe6873d15338ae39392784d729dee7a4530ca5135588ce24e\"), 7)7d3c95f98bd2b66af7c1d3a16cad13e01562539e02afc9695b86a5416092645f"
        :> <<11, 4, 11, 8, 11, 13, 8, 12, 4, 15, 4, 2, 13, 5, 8, 11, 2, 8, 7, 10, 15, 9, 6, 10, 8, 5, 12, 1, 3, 4, 8, 6, 14, 15, 10, 10, 10, 9, 12, 2, 7, 4, 14, 0, 5, 7, 12, 2, 12, 4, 12, 3, 9, 8, 9, 5, 2, 6, 5, 15, 2, 11, 4, 4>>))
    @@
    (("(Some(\"6164e20ac3de15cbe6873d15338ae39392784d729dee7a4530ca5135588ce24e\"), 7)7d3c95f98bd2b66af7c1d3a16cad13e01562539e02afc9695b86a5416092645f0af7ba66f9a27ed0e229221aada0cc88d5d6fd58f46f72eb626bd37b8e94efc8"
        :> <<5, 8, 6, 10, 9, 14, 4, 1, 14, 10, 14, 12, 1, 9, 7, 6, 11, 3, 9, 14, 5, 4, 4, 6, 7, 13, 4, 8, 0, 6, 13, 4, 6, 14, 0, 5, 13, 7, 13, 12, 4, 2, 10, 2, 2, 6, 11, 7, 3, 0, 7, 8, 7, 10, 14, 10, 1, 7, 9, 14, 8, 1, 14, 14>>)
    @@
    ("(Some(\"6164e20ac3de15cbe6873d15338ae39392784d729dee7a4530ca5135588ce24e\"), 7)7d3c95f98bd2b66af7c1d3a16cad13e01562539e02afc9695b86a5416092645f0af7ba66f9a27ed0e229221aada0cc88d5d6fd58f46f72eb626bd37b8e94efc80af7ba66f9a27ed0e229221aada0cc88d5d6fd58f46f72eb626bd37b8e94efc8"
        :> <<10, 5, 6, 4, 4, 15, 15, 4, 7, 12, 9, 3, 0, 7, 8, 11, 6, 14, 15, 7, 11, 15, 13, 6, 13, 12, 13, 12, 6, 2, 4, 0, 2, 12, 10, 15, 13, 1, 2, 0, 7, 8, 11, 12, 4, 13, 9, 3, 3, 0, 5, 4, 6, 13, 1, 8, 6, 11, 9, 4, 11, 14, 9, 1>>)))))))
    @@
    (((((("(Some(\"6164e20ac3de15cbe6873d15338ae39392784d729dee7a4530ca5135588ce24e\"), 7)7d3c95f98bd2b66af7c1d3a16cad13e01562539e02afc9695b86a5416092645f0af7ba66f9a27ed0e229221aada0cc88d5d6fd58f46f72eb626bd37b8e94efc80f953d12a939fe4ef354fff77564841627136a6bf3667b256c4a5cb6768788da"
        :> <<0, 5, 14, 2, 15, 9, 8, 8, 13, 1, 10, 1, 6, 2, 9, 14, 8, 3, 15, 11, 15, 7, 3, 0, 5, 14, 1, 7, 7, 6, 6, 2, 5, 6, 0, 10, 13, 0, 10, 13, 14, 14, 11, 11, 11, 5, 8, 10, 13, 6, 9, 0, 5, 14, 3, 12, 7, 10, 1, 13, 9, 11, 6, 9>>)
    @@
    (("(Some(\"6164e20ac3de15cbe6873d15338ae39392784d729dee7a4530ca5135588ce24e\"), 7)7d3c95f98bd2b66af7c1d3a16cad13e01562539e02afc9695b86a5416092645f0af7ba66f9a27ed0e229221aada0cc88d5d6fd58f46f72eb626bd37b8e94efc8140fc148a380d69b8753d296355d450a4c606dfa652482747ab694cd6ac23972"
        :> <<15, 2, 12, 9, 12, 7, 1, 8, 11, 5, 12, 2, 3, 3, 0, 15, 11, 5, 7, 6, 12, 7, 0, 8, 8, 4, 11, 8, 6, 7, 4, 6, 8, 1, 5, 10, 0, 15, 3, 2, 2, 7, 12, 3, 0, 14, 10, 7, 7, 10, 3, 11, 11, 3, 10, 9, 15, 1, 1, 12, 2, 13, 2, 15>>)
    @@
    ("(Some(\"6164e20ac3de15cbe6873d15338ae39392784d729dee7a4530ca5135588ce24e\"), 7)7d3c95f98bd2b66af7c1d3a16cad13e01562539e02afc9695b86a5416092645f0af7ba66f9a27ed0e229221aada0cc88d5d6fd58f46f72eb626bd37b8e94efc87d3c95f98bd2b66af7c1d3a16cad13e01562539e02afc9695b86a5416092645f"
        :> <<6, 5, 1, 15, 7, 1, 6, 14, 10, 6, 15, 5, 10, 5, 11, 5, 10, 7, 10, 14, 3, 7, 11, 13, 4, 8, 4, 12, 14, 14, 10, 4, 5, 13, 8, 9, 10, 15, 4, 12, 4, 15, 2, 12, 10, 10, 7, 15, 15, 7, 12, 3, 11, 4, 6, 13, 15, 11, 5, 8, 6, 15, 3, 7>>)))
    @@
    (("(Some(\"6164e20ac3de15cbe6873d15338ae39392784d729dee7a4530ca5135588ce24e\"), 7)7d3c95f98bd2b66af7c1d3a16cad13e01562539e02afc9695b86a5416092645f0f953d12a939fe4ef354fff77564841627136a6bf3667b256c4a5cb6768788da"
        :> <<3, 15, 13, 7, 15, 9, 11, 11, 5, 15, 5, 3, 6, 7, 3, 7, 13, 11, 1, 3, 8, 0, 6, 2, 6, 9, 13, 13, 6, 15, 5, 2, 5, 15, 1, 11, 8, 10, 3, 6, 14, 14, 13, 2, 13, 8, 12, 11, 0, 15, 11, 14, 8, 12, 5, 14, 9, 7, 11, 1, 11, 15, 10, 7>>)
    @@
    (("(Some(\"6164e20ac3de15cbe6873d15338ae39392784d729dee7a4530ca5135588ce24e\"), 7)7d3c95f98bd2b66af7c1d3a16cad13e01562539e02afc9695b86a5416092645f0f953d12a939fe4ef354fff77564841627136a6bf3667b256c4a5cb6768788da0af7ba66f9a27ed0e229221aada0cc88d5d6fd58f46f72eb626bd37b8e94efc8"
        :> <<13, 15, 7, 11, 15, 5, 6, 10, 5, 5, 11, 4, 9, 15, 15, 0, 6, 7, 1, 11, 8, 11, 7, 14, 13, 0, 5, 4, 9, 3, 8, 3, 8, 11, 13, 8, 1, 1, 7, 0, 15, 8, 3, 13, 14, 11, 6, 2, 13, 1, 0, 10, 4, 2, 5, 1, 0, 9, 9, 4, 1, 7, 2, 1>>)
    @@
    ("(Some(\"6164e20ac3de15cbe6873d15338ae39392784d729dee7a4530ca5135588ce24e\"), 7)7d3c95f98bd2b66af7c1d3a16cad13e01562539e02afc9695b86a5416092645f0f953d12a939fe4ef354fff77564841627136a6bf3667b256c4a5cb6768788da0f953d12a939fe4ef354fff77564841627136a6bf3667b256c4a5cb6768788da"
        :> <<12, 13, 14, 0, 1, 5, 10, 8, 3, 12, 15, 11, 8, 8, 3, 13, 9, 0, 14, 11, 4, 0, 13, 8, 0, 4, 2, 12, 7, 6, 8, 10, 8, 0, 12, 7, 7, 8, 0, 4, 4, 10, 7, 7, 7, 11, 0, 10, 1, 14, 11, 11, 13, 9, 11, 12, 12, 14, 12, 9, 14, 1, 10, 11>>))))
    @@
    ((("(Some(\"6164e20ac3de15cbe6873d15338ae39392784d729dee7a4530ca5135588ce24e\"), 7)7d3c95f98bd2b66af7c1d3a16cad13e01562539e02afc9695b86a5416092645f0f953d12a939fe4ef354fff77564841627136a6bf3667b256c4a5cb6768788da140fc148a380d69b8753d296355d450a4c606dfa652482747ab694cd6ac23972"
        :> <<12, 7, 6, 2, 5, 3, 4, 0, 0, 2, 7, 9, 11, 7, 12, 8, 4, 13, 11, 4, 1, 15, 14, 10, 0, 15, 12, 0, 6, 12, 14, 1, 2, 2, 6, 15, 4, 13, 6, 10, 13, 8, 4, 4, 2, 7, 9, 1, 9, 12, 9, 14, 13, 10, 0, 1, 12, 10, 7, 0, 13, 4, 3, 3>>)
    @@
    (("(Some(\"6164e20ac3de15cbe6873d15338ae39392784d729dee7a4530ca5135588ce24e\"), 7)7d3c95f98bd2b66af7c1d3a16cad13e01562539e02afc9695b86a5416092645f0f953d12a939fe4ef354fff77564841627136a6bf3667b256c4a5cb6768788da7d3c95f98bd2b66af7c1d3a16cad13e01562539e02afc9695b86a5416092645f"
        :> <<15, 8, 5, 5, 9, 13, 8, 5, 1, 8, 6, 11, 9, 11, 3, 5, 12, 5, 4, 15, 4, 2, 14, 5, 1, 15, 9, 13, 2, 5, 7, 12, 7, 11, 0, 1, 10, 14, 11, 6, 5, 0, 15, 14, 2, 9, 14, 10, 9, 4, 2, 11, 7, 6, 4, 12, 2, 8, 2, 3, 13, 13, 11, 8>>)
    @@
    ("(Some(\"6164e20ac3de15cbe6873d15338ae39392784d729dee7a4530ca5135588ce24e\"), 7)7d3c95f98bd2b66af7c1d3a16cad13e01562539e02afc9695b86a5416092645f140fc148a380d69b8753d296355d450a4c606dfa652482747ab694cd6ac23972"
        :> <<2, 5, 13, 0, 0, 2, 3, 1, 15, 5, 4, 4, 14, 14, 0, 14, 9, 7, 8, 14, 12, 11, 13, 1, 8, 13, 11, 13, 3, 3, 15, 10, 5, 0, 12, 7, 12, 3, 14, 15, 5, 9, 13, 6, 2, 11, 1, 11, 1, 5, 15, 2, 14, 0, 12, 15, 3, 3, 6, 7, 10, 2, 13, 1>>)))
    @@
    ((("(Some(\"6164e20ac3de15cbe6873d15338ae39392784d729dee7a4530ca5135588ce24e\"), 7)7d3c95f98bd2b66af7c1d3a16cad13e01562539e02afc9695b86a5416092645f140fc148a380d69b8753d296355d450a4c606dfa652482747ab694cd6ac239720af7ba66f9a27ed0e229221aada0cc88d5d6fd58f46f72eb626bd37b8e94efc8"
        :> <<0, 2, 6, 12, 9, 11, 11, 5, 11, 0, 7, 10, 9, 0, 0, 10, 2, 8, 12, 13, 1, 11, 7, 3, 14, 3, 12, 9, 9, 7, 6, 10, 9, 1, 13, 13, 15, 8, 14, 8, 12, 5, 2, 4, 0, 4, 4, 2, 1, 6, 9, 7, 1, 4, 13, 3, 9, 3, 11, 5, 7, 1, 4, 3>>)
    @@
    ("(Some(\"6164e20ac3de15cbe6873d15338ae39392784d729dee7a4530ca5135588ce24e\"), 7)7d3c95f98bd2b66af7c1d3a16cad13e01562539e02afc9695b86a5416092645f140fc148a380d69b8753d296355d450a4c606dfa652482747ab694cd6ac239720f953d12a939fe4ef354fff77564841627136a6bf3667b256c4a5cb6768788da"
        :> <<9, 0, 15, 12, 10, 0, 13, 14, 7, 12, 7, 13, 3, 15, 6, 2, 9, 15, 4, 2, 12, 7, 5, 8, 15, 7, 13, 5, 0, 1, 7, 14, 11, 9, 12, 5, 6, 9, 13, 6, 3, 14, 15, 0, 15, 8, 15, 13, 4, 12, 7, 1, 7, 12, 4, 4, 3, 9, 15, 0, 14, 2, 10, 11>>))
    @@
    (("(Some(\"6164e20ac3de15cbe6873d15338ae39392784d729dee7a4530ca5135588ce24e\"), 7)7d3c95f98bd2b66af7c1d3a16cad13e01562539e02afc9695b86a5416092645f140fc148a380d69b8753d296355d450a4c606dfa652482747ab694cd6ac23972140fc148a380d69b8753d296355d450a4c606dfa652482747ab694cd6ac23972"
        :> <<12, 14, 15, 10, 3, 10, 12, 10, 5, 4, 13, 10, 13, 1, 9, 4, 4, 6, 12, 10, 3, 15, 6, 11, 13, 4, 15, 2, 1, 13, 12, 14, 2, 5, 12, 13, 8, 1, 13, 0, 3, 10, 2, 9, 9, 10, 8, 9, 8, 7, 8, 3, 12, 9, 0, 11, 1, 10, 14, 14, 2, 9, 1, 12>>)
    @@
    ("(Some(\"6164e20ac3de15cbe6873d15338ae39392784d729dee7a4530ca5135588ce24e\"), 7)7d3c95f98bd2b66af7c1d3a16cad13e01562539e02afc9695b86a5416092645f140fc148a380d69b8753d296355d450a4c606dfa652482747ab694cd6ac239727d3c95f98bd2b66af7c1d3a16cad13e01562539e02afc9695b86a5416092645f"
        :> <<15, 1, 3, 5, 1, 15, 3, 7, 5, 1, 11, 8, 6, 11, 12, 2, 11, 0, 6, 8, 3, 1, 6, 4, 4, 3, 4, 3, 0, 14, 13, 15, 11, 10, 5, 15, 1, 0, 0, 6, 2, 15, 14, 3, 4, 8, 2, 2, 15, 15, 11, 4, 10, 7, 7, 10, 6, 4, 8, 8, 12, 15, 11, 9>>)))))
    @@
    (((("(Some(\"6164e20ac3de15cbe6873d15338ae39392784d729dee7a4530ca5135588ce24e\"), 7)7d3c95f98bd2b66af7c1d3a16cad13e01562539e02afc9695b86a5416092645f7d3c95f98bd2b66af7c1d3a16cad13e01562539e02afc9695b86a5416092645f"
        :> <<13, 0, 13, 1, 0, 3, 15, 1, 3, 11, 12, 13, 11, 0, 5, 5, 5, 11, 2, 9, 8, 8, 2, 5, 8, 9, 15, 12, 3, 0, 7, 7, 10, 3, 15, 11, 5, 10, 5, 11, 6, 8, 12, 4, 9, 5, 1, 10, 4, 5, 1, 15, 2, 15, 2, 9, 3, 11, 11, 12, 13, 8, 1, 12>>)
    @@
    (("(Some(\"6164e20ac3de15cbe6873d15338ae39392784d729dee7a4530ca5135588ce24e\"), 7)7d3c95f98bd2b66af7c1d3a16cad13e01562539e02afc9695b86a5416092645f7d3c95f98bd2b66af7c1d3a16cad13e01562539e02afc9695b86a5416092645f0af7ba66f9a27ed0e229221aada0cc88d5d6fd58f46f72eb626bd37b8e94efc8"
        :> <<0, 15, 14, 1, 3, 13, 15, 15, 11, 1, 2, 7, 6, 6, 12, 14, 11, 4, 11, 3, 5, 10, 1, 3, 15, 3, 8, 7, 0, 13, 2, 15, 3, 5, 3, 14, 11, 7, 10, 3, 4, 9, 0, 4, 4, 7, 11, 3, 13, 4, 12, 11, 15, 6, 0, 3, 10, 10, 2, 4, 2, 10, 10, 8>>)
    @@
    ("(Some(\"6164e20ac3de15cbe6873d15338ae39392784d729dee7a4530ca5135588ce24e\"), 7)7d3c95f98bd2b66af7c1d3a16cad13e01562539e02afc9695b86a5416092645f7d3c95f98bd2b66af7c1d3a16cad13e01562539e02afc9695b86a5416092645f0f953d12a939fe4ef354fff77564841627136a6bf3667b256c4a5cb6768788da"
        :> <<5, 15, 12, 11, 11, 15, 5, 3, 7, 1, 1, 5, 1, 13, 15, 14, 12, 15, 13, 1, 1, 13, 4, 4, 4, 9, 9, 11, 7, 1, 11, 7, 4, 2, 0, 10, 6, 15, 5, 13, 8, 3, 3, 15, 11, 8, 3, 15, 9, 10, 0, 6, 10, 9, 5, 8, 0, 8, 8, 7, 2, 15, 12, 11>>)))
    @@
    (("(Some(\"6164e20ac3de15cbe6873d15338ae39392784d729dee7a4530ca5135588ce24e\"), 7)7d3c95f98bd2b66af7c1d3a16cad13e01562539e02afc9695b86a5416092645f7d3c95f98bd2b66af7c1d3a16cad13e01562539e02afc9695b86a5416092645f140fc148a380d69b8753d296355d450a4c606dfa652482747ab694cd6ac23972"
        :> <<9, 14, 14, 2, 14, 0, 1, 5, 0, 11, 3, 15, 3, 9, 1, 4, 7, 1, 15, 6, 12, 7, 0, 13, 12, 2, 11, 15, 8, 7, 8, 9, 8, 3, 10, 6, 15, 0, 2, 12, 13, 9, 9, 12, 1, 14, 1, 15, 7, 2, 9, 8, 5, 11, 2, 5, 7, 8, 5, 14, 4, 11, 1, 1>>)
    @@
    (("(Some(\"6164e20ac3de15cbe6873d15338ae39392784d729dee7a4530ca5135588ce24e\"), 7)7d3c95f98bd2b66af7c1d3a16cad13e01562539e02afc9695b86a5416092645f7d3c95f98bd2b66af7c1d3a16cad13e01562539e02afc9695b86a5416092645f7d3c95f98bd2b66af7c1d3a16cad13e01562539e02afc9695b86a5416092645f"
        :> <<7, 14, 13, 1, 3, 14, 9, 11, 5, 15, 15, 9, 1, 5, 3, 13, 0, 11, 5, 6, 5, 3, 13, 15, 9, 14, 12, 9, 13, 9, 3, 1, 11, 3, 0, 6, 10, 10, 15, 7, 13, 9, 14, 13, 2, 2, 8, 6, 15, 15, 8, 0, 5, 4, 14, 10, 11, 8, 3, 10, 5, 4, 4, 8>>)
    @@
    ("(Some(\"638d7a3beb49d9130a07e4423dbf303986408be87259fd46753a2edabbb3432b\"), 0)"
        :> <<10, 10, 8, 11, 15, 0, 10, 10, 4, 4, 10, 14, 3, 13, 0, 2, 8, 9, 13, 13, 7, 12, 8, 2, 11, 3, 4, 12, 1, 3, 4, 12, 5, 11, 7, 1, 12, 5, 12, 13, 10, 15, 6, 4, 5, 2, 2, 11, 2, 13, 11, 13, 8, 12, 3, 8, 5, 8, 11, 1, 14, 11, 1, 15>>))))
    @@
    ((("(Some(\"638d7a3beb49d9130a07e4423dbf303986408be87259fd46753a2edabbb3432b\"), 2)"
        :> <<0, 9, 15, 0, 12, 2, 8, 15, 12, 12, 8, 8, 1, 1, 6, 11, 10, 3, 14, 0, 2, 5, 4, 13, 1, 11, 4, 7, 13, 10, 8, 3, 0, 7, 11, 10, 0, 2, 7, 0, 8, 3, 13, 13, 13, 4, 12, 8, 10, 3, 12, 9, 9, 14, 5, 1, 7, 1, 12, 9, 2, 0, 12, 14>>)
    @@
    (("(Some(\"638d7a3beb49d9130a07e4423dbf303986408be87259fd46753a2edabbb3432b\"), 3)"
        :> <<11, 5, 3, 10, 6, 7, 11, 15, 12, 7, 10, 11, 3, 9, 13, 10, 7, 11, 5, 2, 6, 2, 1, 3, 10, 7, 7, 13, 3, 5, 1, 9, 2, 3, 10, 0, 2, 13, 8, 14, 4, 9, 12, 9, 13, 11, 5, 14, 12, 11, 10, 8, 8, 12, 6, 6, 12, 1, 9, 13, 0, 3, 5, 11>>)
    @@
    ("(Some(\"638d7a3beb49d9130a07e4423dbf303986408be87259fd46753a2edabbb3432b\"), 4)"
        :> <<4, 6, 10, 4, 5, 15, 2, 2, 11, 5, 9, 3, 15, 9, 9, 9, 10, 2, 11, 11, 10, 11, 15, 10, 12, 1, 8, 12, 3, 15, 1, 0, 8, 14, 7, 13, 13, 1, 15, 4, 13, 13, 14, 9, 12, 10, 2, 2, 8, 10, 4, 15, 9, 4, 15, 9, 1, 15, 7, 10, 9, 1, 8, 12>>)))
    @@
    ((("(Some(\"638d7a3beb49d9130a07e4423dbf303986408be87259fd46753a2edabbb3432b\"), 5)"
        :> <<14, 15, 0, 5, 2, 10, 6, 4, 12, 13, 1, 10, 3, 8, 4, 15, 1, 1, 4, 6, 14, 15, 15, 3, 13, 0, 7, 7, 15, 4, 1, 2, 11, 7, 5, 8, 0, 15, 14, 15, 5, 13, 0, 3, 9, 3, 13, 12, 14, 15, 12, 15, 4, 9, 13, 9, 4, 15, 5, 10, 3, 11, 5, 1>>)
    @@
    ("(Some(\"638d7a3beb49d9130a07e4423dbf303986408be87259fd46753a2edabbb3432b\"), 6)"
        :> <<9, 13, 7, 10, 6, 6, 7, 2, 6, 2, 3, 9, 13, 9, 6, 14, 14, 3, 3, 8, 8, 7, 15, 10, 12, 2, 5, 11, 11, 7, 10, 6, 7, 13, 4, 4, 11, 5, 8, 3, 10, 2, 7, 14, 7, 5, 9, 14, 14, 10, 9, 6, 3, 14, 4, 7, 10, 15, 14, 9, 9, 8, 1, 15>>))
    @@
    (("(Some(\"638d7a3beb49d9130a07e4423dbf303986408be87259fd46753a2edabbb3432b\"), 7)"
        :> <<2, 0, 10, 5, 6, 7, 13, 1, 14, 3, 8, 11, 10, 6, 2, 0, 13, 2, 13, 9, 0, 11, 7, 3, 11, 4, 7, 7, 3, 11, 9, 13, 4, 6, 7, 4, 13, 5, 6, 4, 11, 0, 0, 2, 14, 1, 4, 13, 4, 15, 10, 10, 0, 4, 3, 0, 11, 15, 0, 9, 7, 11, 1, 4>>)
    @@
    ("(Some(\"6d31e2887c890be0d3c93ab48279e6bda7cef184b741f5bf46b1d537b3e07d7e\"), 0)"
        :> <<8, 5, 0, 2, 2, 9, 6, 4, 2, 6, 2, 3, 9, 13, 10, 15, 8, 8, 10, 3, 10, 14, 13, 2, 1, 14, 15, 1, 15, 12, 11, 12, 14, 10, 4, 6, 4, 5, 15, 9, 4, 14, 12, 14, 13, 9, 2, 3, 7, 0, 3, 0, 2, 9, 8, 0, 1, 11, 0, 14, 4, 4, 11, 0>>))))))
    @@
    ((((("(Some(\"6d31e2887c890be0d3c93ab48279e6bda7cef184b741f5bf46b1d537b3e07d7e\"), 2)"
        :> <<1, 12, 1, 6, 9, 6, 6, 12, 1, 6, 3, 13, 1, 1, 5, 3, 3, 3, 0, 15, 9, 2, 11, 8, 7, 10, 8, 5, 13, 15, 5, 1, 7, 13, 7, 13, 0, 8, 11, 11, 10, 5, 10, 15, 2, 3, 12, 1, 14, 0, 7, 10, 12, 10, 9, 7, 13, 15, 4, 1, 11, 9, 10, 6>>)
    @@
    (("(Some(\"6d31e2887c890be0d3c93ab48279e6bda7cef184b741f5bf46b1d537b3e07d7e\"), 3)"
        :> <<10, 3, 12, 9, 13, 14, 6, 13, 4, 11, 8, 7, 12, 5, 0, 14, 12, 0, 4, 14, 7, 7, 8, 3, 8, 14, 13, 13, 7, 6, 3, 2, 6, 11, 6, 11, 11, 15, 11, 11, 14, 9, 6, 8, 10, 1, 8, 7, 3, 6, 12, 6, 12, 6, 5, 0, 14, 2, 4, 3, 2, 4, 13, 4>>)
    @@
    ("(Some(\"6d31e2887c890be0d3c93ab48279e6bda7cef184b741f5bf46b1d537b3e07d7e\"), 4)"
        :> <<4, 0, 5, 7, 15, 7, 4, 15, 11, 0, 12, 15, 5, 9, 9, 15, 1, 13, 7, 10, 5, 9, 8, 8, 10, 14, 9, 1, 14, 2, 3, 5, 5, 11, 8, 11, 11, 5, 3, 7, 4, 2, 14, 15, 14, 9, 6, 9, 3, 3, 3, 5, 1, 6, 15, 9, 15, 7, 6, 5, 1, 6, 12, 11>>)))
    @@
    (("(Some(\"6d31e2887c890be0d3c93ab48279e6bda7cef184b741f5bf46b1d537b3e07d7e\"), 5)"
        :> <<5, 0, 4, 13, 9, 8, 15, 9, 14, 8, 4, 7, 4, 3, 5, 8, 9, 2, 7, 4, 9, 6, 14, 3, 15, 2, 12, 10, 10, 11, 7, 11, 15, 9, 0, 8, 1, 4, 14, 11, 10, 11, 15, 0, 14, 5, 13, 8, 8, 10, 13, 4, 0, 11, 10, 11, 2, 14, 0, 10, 3, 2, 8, 0>>)
    @@
    (("(Some(\"6d31e2887c890be0d3c93ab48279e6bda7cef184b741f5bf46b1d537b3e07d7e\"), 6)"
        :> <<1, 15, 11, 1, 15, 12, 13, 2, 12, 15, 4, 13, 13, 13, 11, 6, 13, 0, 6, 15, 9, 11, 4, 14, 10, 9, 15, 3, 3, 3, 2, 9, 10, 11, 5, 1, 1, 6, 6, 6, 14, 0, 6, 7, 15, 11, 1, 2, 9, 15, 9, 0, 8, 12, 12, 12, 15, 8, 13, 14, 9, 12, 2, 7>>)
    @@
    ("(Some(\"6d31e2887c890be0d3c93ab48279e6bda7cef184b741f5bf46b1d537b3e07d7e\"), 7)"
        :> <<4, 0, 15, 13, 13, 7, 14, 0, 9, 7, 12, 9, 5, 3, 2, 12, 7, 2, 8, 5, 0, 7, 7, 13, 5, 1, 1, 7, 15, 11, 12, 10, 12, 4, 4, 8, 10, 7, 8, 8, 8, 15, 1, 14, 6, 11, 9, 3, 11, 10, 8, 1, 6, 7, 4, 0, 12, 0, 6, 1, 7, 0, 11, 10>>))))
    @@
    ((("(Some(\"76fd03722bacd45effdc590a3e596dade58b20b26d84090619e0967c7bd1f7be\"), 0)"
        :> <<5, 12, 10, 7, 8, 13, 6, 3, 10, 5, 3, 8, 6, 15, 12, 11, 7, 1, 0, 12, 13, 5, 15, 12, 2, 0, 14, 2, 10, 14, 7, 7, 2, 12, 2, 13, 14, 0, 0, 6, 3, 5, 2, 15, 10, 15, 0, 13, 12, 4, 13, 14, 2, 3, 8, 3, 11, 15, 14, 8, 15, 7, 13, 14>>)
    @@
    (("(Some(\"76fd03722bacd45effdc590a3e596dade58b20b26d84090619e0967c7bd1f7be\"), 2)"
        :> <<3, 2, 3, 13, 1, 14, 7, 1, 11, 3, 9, 9, 14, 3, 10, 6, 4, 9, 15, 8, 13, 1, 15, 4, 13, 5, 1, 7, 14, 7, 7, 2, 12, 4, 10, 14, 10, 2, 2, 6, 9, 3, 14, 3, 0, 10, 7, 8, 2, 7, 12, 2, 10, 5, 5, 0, 4, 2, 1, 11, 2, 13, 7, 14>>)
    @@
    ("(Some(\"76fd03722bacd45effdc590a3e596dade58b20b26d84090619e0967c7bd1f7be\"), 3)"
        :> <<0, 6, 4, 12, 1, 9, 8, 3, 4, 1, 0, 9, 3, 7, 6, 3, 13, 3, 7, 3, 13, 10, 14, 0, 14, 0, 11, 10, 7, 8, 11, 4, 1, 3, 11, 11, 9, 2, 13, 8, 9, 13, 15, 7, 14, 4, 7, 4, 10, 4, 8, 1, 15, 3, 10, 1, 13, 0, 1, 15, 0, 1, 7, 14>>)))
    @@
    ((("(Some(\"76fd03722bacd45effdc590a3e596dade58b20b26d84090619e0967c7bd1f7be\"), 4)"
        :> <<12, 11, 14, 13, 6, 3, 12, 8, 12, 8, 9, 6, 15, 3, 13, 10, 13, 13, 4, 14, 2, 15, 14, 10, 1, 12, 12, 14, 1, 13, 10, 14, 13, 15, 15, 2, 6, 12, 9, 11, 0, 3, 7, 10, 9, 11, 15, 13, 7, 9, 1, 11, 2, 9, 4, 2, 9, 14, 11, 7, 12, 12, 0, 1>>)
    @@
    ("(Some(\"76fd03722bacd45effdc590a3e596dade58b20b26d84090619e0967c7bd1f7be\"), 5)"
        :> <<7, 4, 11, 11, 7, 11, 0, 1, 6, 10, 3, 2, 15, 15, 11, 6, 1, 8, 9, 8, 2, 9, 2, 14, 4, 1, 9, 5, 5, 8, 9, 7, 9, 0, 1, 15, 2, 15, 5, 11, 7, 5, 9, 1, 4, 7, 12, 11, 3, 6, 8, 6, 15, 0, 0, 6, 3, 0, 1, 1, 9, 6, 6, 15>>))
    @@
    (("(Some(\"76fd03722bacd45effdc590a3e596dade58b20b26d84090619e0967c7bd1f7be\"), 6)"
        :> <<1, 12, 12, 7, 7, 14, 0, 3, 5, 2, 5, 10, 15, 6, 6, 1, 15, 1, 1, 7, 5, 15, 7, 12, 5, 11, 6, 7, 1, 4, 2, 11, 6, 2, 11, 3, 2, 0, 12, 11, 15, 10, 6, 12, 11, 2, 7, 0, 13, 10, 2, 1, 11, 15, 14, 12, 11, 10, 15, 10, 12, 7, 6, 12>>)
    @@
    ("(Some(\"76fd03722bacd45effdc590a3e596dade58b20b26d84090619e0967c7bd1f7be\"), 7)"
        :> <<0, 1, 7, 1, 13, 4, 13, 0, 0, 6, 11, 8, 9, 0, 6, 15, 6, 15, 10, 10, 0, 14, 13, 8, 9, 14, 6, 10, 7, 15, 5, 3, 1, 5, 7, 14, 1, 2, 4, 6, 7, 0, 13, 8, 8, 9, 3, 11, 0, 0, 10, 11, 3, 8, 13, 5, 12, 12, 9, 2, 11, 3, 14, 6>>)))))
    @@
    (((("(Some(\"954e1e1ea143d11a5a5db67cc63f340e951245fce8b5941b9426c3bb1d1c52c4\"), 0)"
        :> <<10, 7, 14, 3, 3, 5, 1, 5, 13, 13, 5, 14, 14, 8, 8, 6, 10, 9, 15, 9, 14, 14, 12, 11, 4, 11, 3, 12, 4, 2, 4, 3, 11, 9, 7, 8, 8, 1, 3, 0, 13, 3, 8, 2, 6, 1, 15, 10, 14, 4, 13, 5, 5, 13, 2, 4, 6, 3, 4, 7, 14, 3, 0, 9>>)
    @@
    (("(Some(\"954e1e1ea143d11a5a5db67cc63f340e951245fce8b5941b9426c3bb1d1c52c4\"), 2)"
        :> <<3, 15, 15, 0, 11, 14, 6, 2, 2, 7, 11, 6, 2, 10, 6, 5, 8, 4, 7, 2, 4, 3, 1, 0, 1, 15, 6, 7, 8, 3, 0, 1, 11, 0, 9, 6, 5, 7, 9, 8, 7, 15, 5, 15, 0, 10, 3, 2, 14, 4, 8, 9, 14, 6, 14, 10, 11, 3, 14, 9, 7, 12, 1, 11>>)
    @@
    ("(Some(\"954e1e1ea143d11a5a5db67cc63f340e951245fce8b5941b9426c3bb1d1c52c4\"), 3)"
        :> <<12, 2, 13, 7, 15, 13, 13, 1, 9, 2, 5, 4, 7, 2, 12, 1, 9, 9, 13, 13, 8, 8, 5, 7, 11, 2, 11, 4, 10, 1, 9, 0, 13, 8, 10, 8, 0, 9, 15, 8, 10, 15, 14, 11, 2, 13, 7, 15, 5, 6, 14, 12, 1, 8, 12, 13, 12, 8, 4, 8, 10, 4, 1, 12>>)))
    @@
    ((("(Some(\"954e1e1ea143d11a5a5db67cc63f340e951245fce8b5941b9426c3bb1d1c52c4\"), 4)"
        :> <<15, 7, 14, 4, 3, 6, 11, 9, 15, 2, 0, 8, 15, 15, 10, 4, 5, 14, 9, 1, 12, 5, 3, 11, 6, 0, 8, 0, 5, 1, 2, 2, 11, 8, 2, 15, 8, 4, 10, 12, 2, 5, 12, 7, 7, 4, 15, 8, 9, 15, 6, 2, 8, 9, 11, 7, 15, 8, 0, 13, 11, 9, 1, 12>>)
    @@
    ("(Some(\"954e1e1ea143d11a5a5db67cc63f340e951245fce8b5941b9426c3bb1d1c52c4\"), 5)"
        :> <<10, 4, 8, 12, 9, 10, 2, 14, 5, 9, 7, 8, 9, 4, 1, 2, 15, 2, 0, 0, 14, 13, 11, 13, 9, 0, 10, 6, 8, 4, 1, 4, 9, 13, 2, 1, 15, 4, 15, 7, 15, 15, 1, 14, 14, 15, 15, 11, 4, 0, 12, 6, 8, 8, 7, 9, 7, 7, 7, 8, 10, 7, 10, 13>>))
    @@
    (("(Some(\"954e1e1ea143d11a5a5db67cc63f340e951245fce8b5941b9426c3bb1d1c52c4\"), 6)"
        :> <<2, 9, 12, 2, 10, 9, 0, 8, 3, 5, 10, 2, 13, 13, 8, 12, 10, 0, 12, 0, 0, 2, 7, 8, 2, 7, 6, 3, 11, 9, 6, 10, 5, 1, 3, 4, 8, 13, 7, 0, 7, 15, 6, 10, 3, 8, 7, 4, 3, 4, 13, 5, 0, 6, 3, 4, 5, 8, 2, 3, 6, 1, 14, 7>>)
    @@
    ("(Some(\"954e1e1ea143d11a5a5db67cc63f340e951245fce8b5941b9426c3bb1d1c52c4\"), 7)"
        :> <<9, 12, 2, 14, 11, 12, 7, 13, 8, 8, 3, 4, 14, 1, 13, 2, 10, 3, 6, 3, 10, 7, 3, 3, 7, 11, 10, 3, 7, 2, 3, 0, 14, 7, 14, 4, 12, 13, 7, 3, 13, 8, 1, 10, 6, 9, 12, 2, 9, 7, 2, 4, 12, 12, 14, 11, 12, 14, 15, 2, 9, 5, 8, 15>>))))
    @@
    ((("(Some(\"95d2d6c4268f3df5c4ccf358985fe646b4db880603f18d71e4d5bbd0d7cb0b2c\"), 0)"
        :> <<8, 0, 9, 2, 13, 8, 2, 9, 9, 5, 4, 5, 7, 3, 10, 8, 1, 8, 1, 10, 11, 11, 10, 3, 3, 11, 8, 2, 11, 3, 8, 8, 12, 7, 10, 9, 2, 8, 5, 5, 14, 1, 10, 13, 14, 5, 1, 15, 14, 6, 2, 0, 6, 6, 5, 8, 12, 10, 14, 4, 5, 7, 2, 11>>)
    @@
    (("(Some(\"95d2d6c4268f3df5c4ccf358985fe646b4db880603f18d71e4d5bbd0d7cb0b2c\"), 2)"
        :> <<2, 3, 6, 15, 4, 0, 13, 14, 15, 6, 4, 9, 5, 4, 4, 12, 6, 12, 10, 14, 0, 8, 7, 15, 5, 13, 9, 1, 9, 12, 4, 2, 15, 3, 13, 12, 2, 7, 14, 4, 11, 8, 3, 1, 1, 12, 0, 14, 14, 15, 4, 6, 2, 13, 14, 8, 5, 3, 0, 9, 2, 14, 3, 11>>)
    @@
    ("(Some(\"95d2d6c4268f3df5c4ccf358985fe646b4db880603f18d71e4d5bbd0d7cb0b2c\"), 3)"
        :> <<11, 7, 8, 13, 5, 4, 9, 10, 1, 11, 15, 3, 11, 11, 13, 5, 9, 2, 2, 14, 5, 7, 5, 15, 8, 2, 3, 11, 10, 7, 7, 15, 9, 13, 6, 5, 2, 13, 2, 6, 1, 1, 2, 3, 10, 12, 0, 11, 4, 9, 5, 15, 14, 11, 14, 4, 5, 8, 12, 15, 5, 7, 4, 11>>)))
    @@
    ((("(Some(\"95d2d6c4268f3df5c4ccf358985fe646b4db880603f18d71e4d5bbd0d7cb0b2c\"), 4)"
        :> <<1, 11, 1, 6, 3, 2, 3, 8, 14, 11, 7, 1, 11, 15, 8, 7, 12, 8, 12, 9, 15, 11, 5, 0, 0, 13, 11, 3, 3, 4, 0, 2, 13, 5, 12, 15, 2, 9, 14, 9, 15, 6, 5, 15, 14, 8, 15, 7, 7, 13, 15, 10, 7, 4, 12, 12, 13, 2, 10, 4, 2, 15, 9, 9>>)
    @@
    ("(Some(\"95d2d6c4268f3df5c4ccf358985fe646b4db880603f18d71e4d5bbd0d7cb0b2c\"), 5)"
        :> <<13, 14, 8, 13, 10, 15, 5, 1, 5, 5, 9, 11, 0, 9, 8, 15, 5, 11, 11, 9, 6, 12, 8, 15, 6, 11, 2, 12, 10, 3, 2, 5, 10, 6, 14, 14, 0, 11, 3, 0, 6, 2, 5, 0, 12, 11, 4, 1, 5, 8, 7, 2, 13, 0, 0, 12, 4, 8, 3, 11, 9, 7, 5, 7>>))
    @@
    (("(Some(\"95d2d6c4268f3df5c4ccf358985fe646b4db880603f18d71e4d5bbd0d7cb0b2c\"), 6)"
        :> <<12, 7, 14, 10, 0, 7, 5, 14, 5, 10, 7, 14, 6, 0, 9, 1, 6, 10, 6, 7, 14, 13, 3, 11, 11, 8, 6, 9, 4, 0, 12, 6, 7, 7, 10, 3, 3, 6, 6, 6, 1, 1, 14, 13, 7, 1, 5, 6, 2, 15, 11, 7, 14, 13, 4, 4, 1, 14, 3, 5, 5, 15, 9, 12>>)
    @@
    ("(Some(\"95d2d6c4268f3df5c4ccf358985fe646b4db880603f18d71e4d5bbd0d7cb0b2c\"), 7)"
        :> <<14, 14, 9, 3, 2, 14, 2, 4, 13, 5, 11, 10, 2, 7, 12, 9, 5, 2, 2, 11, 4, 5, 0, 11, 7, 2, 12, 7, 10, 2, 13, 6, 15, 3, 0, 12, 6, 12, 3, 0, 10, 7, 11, 10, 13, 7, 14, 13, 0, 8, 9, 7, 5, 10, 13, 9, 10, 3, 4, 13, 10, 1, 2, 15>>))))))))
    @@
    ((((((("(Some(\"9806b9408d9ec5bbb9459c96e0fcbfe10926925e1cf5e43ee5372aff73a122bf\"), 0)"
        :> <<14, 12, 2, 7, 14, 12, 9, 15, 0, 15, 8, 11, 1, 14, 15, 15, 14, 10, 3, 4, 14, 5, 15, 13, 14, 5, 5, 12, 15, 3, 8, 2, 11, 12, 5, 9, 8, 13, 14, 7, 3, 13, 15, 3, 8, 2, 5, 3, 3, 5, 12, 13, 7, 9, 15, 7, 11, 12, 6, 10, 14, 14, 3, 9>>)
    @@
    (("(Some(\"9806b9408d9ec5bbb9459c96e0fcbfe10926925e1cf5e43ee5372aff73a122bf\"), 2)"
        :> <<2, 9, 11, 2, 2, 2, 2, 0, 10, 14, 10, 10, 12, 7, 9, 3, 11, 3, 12, 15, 2, 6, 8, 8, 10, 12, 7, 4, 7, 4, 14, 13, 6, 3, 5, 1, 3, 14, 7, 2, 3, 10, 14, 8, 10, 15, 13, 6, 5, 2, 1, 9, 2, 5, 9, 12, 4, 7, 9, 12, 4, 4, 8, 11>>)
    @@
    ("(Some(\"9806b9408d9ec5bbb9459c96e0fcbfe10926925e1cf5e43ee5372aff73a122bf\"), 3)"
        :> <<7, 1, 14, 14, 8, 12, 10, 2, 3, 5, 4, 2, 5, 12, 3, 7, 11, 8, 0, 12, 14, 1, 10, 3, 0, 10, 2, 7, 4, 3, 10, 8, 7, 10, 10, 13, 6, 12, 3, 8, 1, 7, 5, 13, 15, 11, 5, 11, 13, 6, 12, 13, 0, 1, 12, 11, 11, 9, 2, 10, 8, 2, 1, 8>>)))
    @@
    (("(Some(\"9806b9408d9ec5bbb9459c96e0fcbfe10926925e1cf5e43ee5372aff73a122bf\"), 4)"
        :> <<10, 5, 13, 2, 2, 1, 8, 1, 2, 13, 5, 14, 5, 11, 3, 4, 0, 6, 12, 2, 1, 14, 6, 11, 12, 9, 7, 1, 3, 3, 0, 2, 11, 3, 13, 9, 4, 11, 9, 14, 14, 7, 15, 7, 9, 4, 3, 12, 11, 12, 10, 14, 7, 4, 2, 8, 5, 15, 7, 5, 7, 5, 9, 4>>)
    @@
    (("(Some(\"9806b9408d9ec5bbb9459c96e0fcbfe10926925e1cf5e43ee5372aff73a122bf\"), 5)"
        :> <<11, 11, 7, 0, 9, 1, 10, 15, 5, 1, 7, 8, 14, 9, 9, 0, 2, 8, 0, 2, 13, 6, 6, 14, 2, 0, 6, 9, 11, 8, 5, 14, 6, 4, 14, 0, 1, 11, 13, 4, 2, 5, 3, 5, 13, 8, 0, 13, 13, 15, 8, 15, 3, 1, 3, 8, 11, 7, 13, 6, 10, 5, 2, 11>>)
    @@
    ("(Some(\"9806b9408d9ec5bbb9459c96e0fcbfe10926925e1cf5e43ee5372aff73a122bf\"), 6)"
        :> <<2, 15, 7, 0, 4, 4, 1, 2, 1, 9, 10, 15, 5, 3, 7, 1, 8, 0, 9, 12, 14, 6, 1, 10, 7, 14, 11, 1, 7, 1, 1, 14, 13, 11, 12, 7, 14, 9, 0, 6, 7, 6, 4, 2, 0, 11, 12, 9, 5, 7, 11, 15, 15, 6, 6, 9, 5, 10, 10, 4, 3, 5, 13, 1>>))))
    @@
    ((("(Some(\"9806b9408d9ec5bbb9459c96e0fcbfe10926925e1cf5e43ee5372aff73a122bf\"), 7)"
        :> <<6, 9, 12, 15, 4, 9, 8, 4, 7, 5, 0, 0, 6, 4, 13, 9, 6, 12, 0, 3, 12, 12, 7, 1, 15, 14, 5, 14, 6, 12, 14, 4, 15, 9, 12, 1, 5, 3, 1, 3, 7, 1, 4, 2, 9, 13, 0, 9, 0, 3, 11, 9, 14, 2, 11, 0, 7, 6, 5, 6, 11, 2, 15, 3>>)
    @@
    (("(Some(\"9b1f26738653c76e98b8d7b2bd4eafb920580b8a6ba55a7ec988c88e5ec73f57\"), 0)"
        :> <<5, 9, 9, 8, 12, 3, 9, 0, 7, 13, 7, 10, 14, 15, 5, 6, 11, 3, 0, 1, 5, 12, 12, 5, 13, 0, 7, 10, 7, 5, 4, 6, 6, 15, 1, 0, 10, 15, 3, 1, 5, 13, 10, 6, 13, 5, 14, 8, 1, 4, 4, 15, 11, 13, 3, 5, 0, 15, 13, 7, 15, 4, 7, 2>>)
    @@
    ("(Some(\"9b1f26738653c76e98b8d7b2bd4eafb920580b8a6ba55a7ec988c88e5ec73f57\"), 0)7d3c95f98bd2b66af7c1d3a16cad13e01562539e02afc9695b86a5416092645f"
        :> <<9, 8, 0, 6, 11, 9, 4, 0, 8, 13, 9, 14, 12, 5, 11, 11, 11, 9, 4, 5, 9, 12, 9, 6, 14, 0, 15, 12, 11, 15, 14, 1, 0, 9, 2, 6, 9, 2, 5, 14, 1, 12, 15, 5, 14, 4, 3, 14, 14, 5, 3, 7, 2, 10, 15, 15, 7, 3, 10, 1, 2, 2, 11, 15>>)))
    @@
    ((("(Some(\"9b1f26738653c76e98b8d7b2bd4eafb920580b8a6ba55a7ec988c88e5ec73f57\"), 2)"
        :> <<0, 6, 7, 6, 9, 1, 6, 11, 11, 3, 15, 2, 3, 5, 7, 5, 6, 0, 2, 9, 5, 4, 12, 6, 12, 3, 15, 0, 14, 8, 8, 2, 5, 9, 2, 10, 10, 13, 9, 0, 5, 0, 9, 12, 4, 5, 3, 11, 2, 15, 2, 4, 5, 2, 8, 3, 7, 2, 10, 11, 0, 8, 6, 1>>)
    @@
    ("(Some(\"9b1f26738653c76e98b8d7b2bd4eafb920580b8a6ba55a7ec988c88e5ec73f57\"), 2)7d3c95f98bd2b66af7c1d3a16cad13e01562539e02afc9695b86a5416092645f"
        :> <<0, 12, 11, 8, 15, 4, 3, 4, 14, 14, 11, 5, 5, 14, 7, 2, 8, 3, 8, 4, 1, 11, 10, 15, 10, 10, 8, 0, 0, 5, 3, 7, 1, 1, 15, 7, 8, 2, 6, 5, 8, 13, 5, 13, 9, 1, 15, 10, 15, 1, 10, 14, 9, 1, 4, 1, 5, 7, 3, 10, 2, 0, 13, 3>>))
    @@
    (("(Some(\"9b1f26738653c76e98b8d7b2bd4eafb920580b8a6ba55a7ec988c88e5ec73f57\"), 3)"
        :> <<10, 14, 5, 12, 15, 2, 15, 6, 0, 6, 8, 10, 7, 1, 9, 12, 10, 3, 3, 11, 2, 1, 10, 4, 9, 3, 11, 3, 5, 10, 12, 2, 5, 9, 0, 9, 15, 11, 1, 12, 9, 1, 5, 0, 12, 13, 13, 13, 13, 9, 10, 9, 15, 10, 14, 5, 4, 5, 7, 12, 10, 11, 11, 7>>)
    @@
    ("(Some(\"9b1f26738653c76e98b8d7b2bd4eafb920580b8a6ba55a7ec988c88e5ec73f57\"), 3)7d3c95f98bd2b66af7c1d3a16cad13e01562539e02afc9695b86a5416092645f"
        :> <<0, 2, 7, 15, 4, 13, 5, 13, 7, 6, 5, 3, 10, 12, 12, 13, 15, 0, 9, 10, 15, 13, 5, 5, 7, 13, 15, 10, 4, 10, 3, 9, 10, 4, 2, 1, 1, 10, 5, 5, 12, 12, 11, 11, 10, 7, 8, 3, 8, 11, 4, 10, 12, 4, 12, 11, 0, 15, 11, 0, 11, 0, 3, 12>>)))))
    @@
    (((("(Some(\"9b1f26738653c76e98b8d7b2bd4eafb920580b8a6ba55a7ec988c88e5ec73f57\"), 4)"
        :> <<12, 8, 5, 7, 2, 15, 5, 7, 3, 5, 5, 8, 7, 0, 5, 11, 6, 12, 0, 7, 3, 15, 12, 4, 1, 4, 12, 10, 14, 8, 14, 6, 3, 11, 0, 0, 5, 13, 9, 8, 10, 7, 14, 7, 7, 9, 14, 8, 10, 11, 13, 6, 1, 15, 9, 15, 3, 3, 10, 6, 8, 6, 12, 2>>)
    @@
    (("(Some(\"9b1f26738653c76e98b8d7b2bd4eafb920580b8a6ba55a7ec988c88e5ec73f57\"), 4)7d3c95f98bd2b66af7c1d3a16cad13e01562539e02afc9695b86a5416092645f"
        :> <<1, 7, 9, 5, 4, 1, 1, 4, 3, 4, 7, 5, 1, 9, 13, 0, 14, 12, 0, 14, 6, 13, 15, 15, 8, 0, 2, 5, 3, 7, 2, 9, 9, 3, 8, 6, 8, 14, 13, 0, 9, 15, 12, 14, 13, 5, 7, 2, 1, 1, 10, 7, 15, 1, 2, 14, 2, 2, 4, 5, 4, 6, 7, 0>>)
    @@
    ("(Some(\"9b1f26738653c76e98b8d7b2bd4eafb920580b8a6ba55a7ec988c88e5ec73f57\"), 5)"
        :> <<14, 12, 13, 13, 7, 11, 3, 3, 9, 4, 10, 12, 11, 0, 1, 14, 8, 4, 11, 14, 2, 1, 9, 10, 5, 9, 5, 7, 5, 5, 4, 10, 3, 11, 11, 10, 1, 10, 11, 9, 12, 15, 12, 9, 4, 13, 11, 3, 8, 15, 11, 9, 9, 11, 14, 10, 15, 2, 8, 0, 11, 1, 2, 11>>)))
    @@
    (("(Some(\"9b1f26738653c76e98b8d7b2bd4eafb920580b8a6ba55a7ec988c88e5ec73f57\"), 5)7d3c95f98bd2b66af7c1d3a16cad13e01562539e02afc9695b86a5416092645f"
        :> <<1, 10, 1, 9, 1, 0, 12, 2, 3, 4, 14, 13, 13, 10, 1, 15, 3, 12, 13, 5, 11, 11, 14, 10, 1, 1, 4, 14, 3, 13, 15, 8, 3, 5, 5, 0, 14, 3, 13, 0, 8, 5, 12, 0, 6, 5, 8, 14, 0, 0, 6, 13, 6, 8, 4, 12, 6, 13, 7, 4, 0, 14, 15, 12>>)
    @@
    (("(Some(\"9b1f26738653c76e98b8d7b2bd4eafb920580b8a6ba55a7ec988c88e5ec73f57\"), 6)"
        :> <<6, 13, 0, 11, 3, 4, 2, 3, 4, 5, 0, 12, 13, 14, 12, 13, 9, 11, 13, 10, 1, 7, 5, 1, 15, 4, 8, 6, 0, 9, 6, 6, 13, 8, 0, 13, 11, 2, 14, 7, 10, 9, 13, 12, 8, 8, 14, 4, 3, 10, 2, 8, 0, 1, 8, 1, 9, 14, 14, 14, 7, 10, 10, 10>>)
    @@
    ("(Some(\"9b1f26738653c76e98b8d7b2bd4eafb920580b8a6ba55a7ec988c88e5ec73f57\"), 6)7d3c95f98bd2b66af7c1d3a16cad13e01562539e02afc9695b86a5416092645f"
        :> <<0, 1, 9, 2, 15, 14, 3, 1, 6, 13, 8, 8, 14, 0, 7, 5, 7, 3, 7, 13, 1, 3, 8, 12, 1, 15, 9, 9, 1, 11, 8, 12, 2, 7, 11, 5, 1, 11, 2, 3, 2, 7, 4, 10, 15, 9, 10, 7, 5, 8, 0, 9, 2, 6, 5, 0, 13, 6, 0, 11, 1, 10, 14, 12>>))))
    @@
    ((("(Some(\"9b1f26738653c76e98b8d7b2bd4eafb920580b8a6ba55a7ec988c88e5ec73f57\"), 7)"
        :> <<4, 8, 12, 11, 7, 7, 0, 2, 7, 6, 6, 0, 13, 10, 8, 7, 15, 0, 12, 10, 2, 13, 5, 2, 10, 8, 9, 13, 2, 11, 0, 5, 13, 3, 8, 7, 1, 14, 2, 1, 12, 11, 2, 13, 12, 15, 5, 2, 13, 1, 10, 5, 4, 5, 9, 14, 9, 3, 12, 0, 13, 1, 11, 3>>)
    @@
    (("(Some(\"9b1f26738653c76e98b8d7b2bd4eafb920580b8a6ba55a7ec988c88e5ec73f57\"), 7)7d3c95f98bd2b66af7c1d3a16cad13e01562539e02afc9695b86a5416092645f"
        :> <<7, 1, 0, 3, 7, 13, 13, 5, 8, 15, 13, 1, 8, 15, 15, 10, 12, 8, 8, 5, 4, 14, 12, 11, 3, 5, 5, 14, 9, 3, 13, 11, 3, 5, 2, 12, 1, 5, 14, 9, 0, 6, 15, 14, 1, 5, 4, 5, 3, 7, 1, 7, 0, 15, 13, 14, 15, 6, 8, 1, 13, 13, 6, 6>>)
    @@
    ("(Some(\"a2d88b898d54eb1c3da2c07e00083d89656a6304ff17010e499b75302762af83\"), 0)"
        :> <<7, 1, 9, 4, 1, 13, 0, 0, 6, 1, 7, 6, 15, 0, 12, 1, 1, 10, 14, 4, 3, 0, 1, 8, 7, 8, 1, 11, 5, 9, 15, 6, 4, 0, 12, 3, 8, 8, 1, 10, 13, 6, 4, 3, 9, 10, 9, 15, 0, 5, 2, 10, 14, 13, 13, 1, 14, 7, 9, 15, 10, 5, 15, 5>>)))
    @@
    ((("(Some(\"a2d88b898d54eb1c3da2c07e00083d89656a6304ff17010e499b75302762af83\"), 2)"
        :> <<7, 7, 12, 6, 0, 9, 8, 0, 13, 5, 11, 6, 10, 11, 8, 8, 8, 5, 12, 0, 12, 9, 6, 2, 1, 15, 3, 9, 13, 8, 2, 5, 2, 12, 2, 9, 14, 5, 12, 9, 0, 2, 4, 13, 12, 8, 5, 15, 14, 9, 11, 10, 3, 6, 3, 8, 9, 1, 11, 9, 14, 0, 14, 7>>)
    @@
    ("(Some(\"a2d88b898d54eb1c3da2c07e00083d89656a6304ff17010e499b75302762af83\"), 3)"
        :> <<3, 0, 2, 14, 2, 2, 4, 13, 8, 9, 4, 3, 9, 13, 14, 1, 14, 5, 11, 7, 11, 2, 4, 7, 5, 6, 14, 1, 14, 1, 6, 1, 7, 8, 0, 1, 3, 15, 4, 12, 10, 10, 4, 2, 0, 3, 11, 1, 3, 4, 0, 6, 8, 11, 13, 11, 2, 9, 14, 10, 15, 0, 6, 10>>))
    @@
    (("(Some(\"a2d88b898d54eb1c3da2c07e00083d89656a6304ff17010e499b75302762af83\"), 4)"
        :> <<1, 6, 9, 13, 5, 12, 9, 13, 9, 2, 9, 7, 5, 12, 1, 9, 5, 12, 14, 15, 6, 12, 2, 15, 2, 14, 0, 3, 0, 3, 14, 4, 9, 7, 8, 1, 5, 13, 6, 0, 9, 15, 13, 5, 11, 2, 1, 3, 8, 6, 7, 4, 8, 9, 13, 1, 2, 10, 10, 13, 7, 1, 1, 3>>)
    @@
    ("(Some(\"a2d88b898d54eb1c3da2c07e00083d89656a6304ff17010e499b75302762af83\"), 5)"
        :> <<6, 3, 7, 4, 13, 1, 11, 4, 6, 9, 12, 12, 7, 4, 13, 9, 13, 5, 14, 8, 4, 14, 10, 1, 8, 1, 7, 12, 10, 12, 15, 4, 0, 10, 14, 2, 6, 12, 10, 2, 14, 15, 5, 4, 9, 13, 9, 5, 3, 13, 10, 7, 8, 15, 8, 12, 9, 8, 10, 9, 1, 6, 9, 7>>))))))
    @@
    ((((("(Some(\"a2d88b898d54eb1c3da2c07e00083d89656a6304ff17010e499b75302762af83\"), 6)"
        :> <<10, 10, 5, 7, 3, 13, 11, 5, 5, 2, 9, 7, 5, 11, 10, 14, 2, 4, 0, 5, 15, 13, 6, 13, 5, 8, 6, 15, 2, 2, 7, 7, 9, 0, 3, 0, 8, 4, 13, 0, 5, 12, 12, 12, 7, 14, 4, 0, 13, 14, 4, 5, 1, 6, 2, 12, 6, 11, 14, 5, 11, 9, 11, 4>>)
    @@
    (("(Some(\"a2d88b898d54eb1c3da2c07e00083d89656a6304ff17010e499b75302762af83\"), 7)"
        :> <<14, 11, 15, 10, 1, 0, 4, 5, 12, 4, 1, 5, 2, 13, 3, 9, 12, 3, 4, 13, 0, 8, 4, 6, 10, 0, 8, 10, 11, 5, 6, 4, 9, 5, 11, 9, 3, 13, 11, 4, 8, 9, 1, 0, 11, 15, 8, 13, 15, 6, 1, 8, 9, 14, 7, 7, 10, 12, 3, 12, 15, 4, 5, 1>>)
    @@
    ("(Some(\"b27544eda762442e7e7788425385280298e8d8ae88a1dea03ae1750c0c5e7405\"), 0)"
        :> <<8, 13, 0, 1, 3, 9, 12, 13, 15, 4, 13, 1, 10, 11, 5, 6, 10, 7, 14, 6, 6, 0, 6, 11, 5, 2, 0, 13, 7, 4, 8, 2, 12, 8, 4, 11, 4, 14, 10, 13, 1, 14, 6, 15, 3, 7, 11, 14, 3, 5, 0, 8, 2, 15, 14, 7, 7, 3, 8, 15, 15, 5, 8, 13>>)))
    @@
    (("(Some(\"b27544eda762442e7e7788425385280298e8d8ae88a1dea03ae1750c0c5e7405\"), 2)"
        :> <<13, 12, 1, 7, 15, 6, 2, 4, 6, 3, 8, 11, 2, 13, 14, 10, 8, 7, 6, 14, 5, 15, 0, 2, 8, 14, 12, 11, 8, 0, 15, 9, 14, 15, 5, 10, 14, 0, 5, 15, 5, 5, 9, 8, 12, 14, 5, 3, 6, 5, 4, 7, 0, 12, 2, 5, 10, 8, 1, 2, 12, 10, 12, 3>>)
    @@
    (("(Some(\"b27544eda762442e7e7788425385280298e8d8ae88a1dea03ae1750c0c5e7405\"), 3)"
        :> <<3, 3, 7, 14, 2, 11, 5, 7, 10, 5, 6, 2, 9, 14, 8, 5, 3, 4, 8, 6, 9, 14, 6, 0, 2, 2, 5, 11, 14, 8, 0, 5, 6, 11, 12, 4, 4, 14, 11, 5, 8, 11, 1, 4, 8, 2, 11, 10, 14, 1, 2, 4, 12, 7, 4, 15, 13, 12, 8, 14, 4, 2, 13, 10>>)
    @@
    ("(Some(\"b27544eda762442e7e7788425385280298e8d8ae88a1dea03ae1750c0c5e7405\"), 4)"
        :> <<11, 15, 15, 13, 4, 7, 9, 13, 9, 1, 10, 9, 7, 3, 15, 5, 14, 11, 14, 2, 13, 11, 13, 14, 4, 0, 1, 15, 13, 5, 11, 4, 2, 15, 12, 4, 3, 9, 15, 1, 13, 13, 9, 15, 15, 9, 11, 9, 3, 14, 10, 1, 12, 2, 14, 3, 1, 11, 9, 2, 3, 14, 3, 3>>))))
    @@
    ((("(Some(\"b27544eda762442e7e7788425385280298e8d8ae88a1dea03ae1750c0c5e7405\"), 5)"
        :> <<6, 14, 2, 1, 14, 14, 8, 12, 3, 3, 5, 11, 13, 12, 12, 9, 13, 2, 8, 0, 6, 14, 2, 2, 15, 9, 2, 3, 11, 11, 7, 1, 10, 11, 0, 14, 2, 8, 13, 14, 11, 10, 7, 12, 9, 0, 1, 11, 0, 7, 4, 3, 0, 10, 7, 5, 12, 5, 14, 2, 0, 11, 11, 0>>)
    @@
    (("(Some(\"b27544eda762442e7e7788425385280298e8d8ae88a1dea03ae1750c0c5e7405\"), 6)"
        :> <<14, 11, 13, 0, 7, 8, 13, 7, 14, 5, 0, 14, 7, 13, 7, 14, 1, 15, 8, 0, 6, 14, 13, 13, 14, 3, 15, 5, 10, 6, 13, 12, 13, 4, 2, 2, 10, 6, 10, 15, 13, 13, 11, 8, 0, 4, 15, 3, 4, 4, 0, 0, 0, 1, 6, 3, 1, 1, 6, 4, 10, 7, 0, 7>>)
    @@
    ("(Some(\"b27544eda762442e7e7788425385280298e8d8ae88a1dea03ae1750c0c5e7405\"), 7)"
        :> <<2, 14, 9, 1, 1, 7, 1, 7, 9, 1, 2, 5, 15, 6, 12, 14, 0, 15, 10, 2, 13, 12, 6, 6, 2, 15, 1, 4, 6, 1, 6, 14, 8, 0, 9, 13, 0, 10, 6, 2, 11, 5, 7, 10, 2, 10, 9, 10, 14, 13, 11, 10, 12, 10, 10, 13, 6, 6, 11, 12, 9, 8, 15, 6>>)))
    @@
    ((("(Some(\"c3c915336c8c46dfef77914b5f2854a138fcf4cd7dc1ae367907e5a147e48185\"), 0)"
        :> <<9, 15, 9, 13, 13, 5, 0, 6, 7, 5, 1, 13, 14, 0, 3, 13, 2, 11, 13, 15, 5, 2, 7, 14, 2, 1, 6, 2, 12, 14, 13, 9, 7, 6, 12, 14, 4, 14, 10, 14, 7, 14, 14, 1, 3, 14, 4, 0, 4, 6, 3, 7, 0, 8, 5, 10, 13, 15, 6, 15, 0, 15, 9, 11>>)
    @@
    ("(Some(\"c3c915336c8c46dfef77914b5f2854a138fcf4cd7dc1ae367907e5a147e48185\"), 2)"
        :> <<4, 10, 11, 12, 5, 15, 0, 1, 0, 2, 7, 5, 7, 9, 8, 2, 2, 7, 8, 15, 0, 3, 9, 15, 13, 4, 8, 5, 4, 2, 15, 11, 9, 1, 13, 9, 1, 9, 10, 5, 2, 10, 15, 9, 12, 11, 0, 4, 5, 14, 10, 8, 2, 0, 2, 12, 8, 13, 6, 3, 13, 11, 12, 11>>))
    @@
    (("(Some(\"c3c915336c8c46dfef77914b5f2854a138fcf4cd7dc1ae367907e5a147e48185\"), 3)"
        :> <<7, 6, 14, 15, 12, 4, 4, 15, 0, 10, 7, 11, 7, 1, 12, 8, 4, 4, 0, 13, 10, 5, 6, 14, 11, 11, 7, 6, 13, 14, 9, 0, 12, 9, 11, 0, 5, 14, 2, 12, 3, 0, 15, 5, 12, 3, 14, 11, 9, 9, 12, 9, 12, 0, 8, 10, 4, 0, 13, 9, 13, 4, 3, 7>>)
    @@
    ("(Some(\"c3c915336c8c46dfef77914b5f2854a138fcf4cd7dc1ae367907e5a147e48185\"), 4)"
        :> <<8, 9, 1, 2, 4, 4, 13, 12, 0, 1, 7, 12, 1, 10, 7, 0, 10, 6, 8, 7, 9, 8, 10, 0, 4, 6, 10, 6, 6, 15, 10, 9, 13, 15, 5, 4, 2, 11, 1, 3, 6, 8, 5, 10, 4, 15, 4, 8, 12, 0, 15, 5, 8, 15, 3, 0, 12, 6, 15, 11, 7, 7, 14, 0>>)))))
    @@
    (((("(Some(\"c3c915336c8c46dfef77914b5f2854a138fcf4cd7dc1ae367907e5a147e48185\"), 5)"
        :> <<9, 14, 3, 3, 2, 14, 15, 15, 0, 10, 4, 4, 13, 8, 6, 9, 3, 1, 15, 6, 11, 8, 9, 8, 7, 14, 13, 7, 4, 7, 4, 10, 11, 8, 0, 9, 10, 14, 2, 2, 9, 13, 13, 10, 15, 10, 11, 2, 11, 2, 1, 1, 0, 7, 5, 2, 14, 2, 14, 11, 7, 9, 8, 15>>)
    @@
    (("(Some(\"c3c915336c8c46dfef77914b5f2854a138fcf4cd7dc1ae367907e5a147e48185\"), 6)"
        :> <<1, 13, 9, 7, 10, 9, 6, 12, 3, 5, 12, 8, 5, 5, 9, 3, 14, 15, 9, 9, 3, 1, 13, 13, 0, 10, 4, 8, 13, 9, 1, 15, 15, 1, 2, 11, 6, 2, 0, 11, 3, 2, 15, 15, 0, 12, 5, 4, 15, 8, 14, 11, 13, 8, 5, 13, 0, 2, 3, 2, 1, 9, 3, 12>>)
    @@
    ("(Some(\"c3c915336c8c46dfef77914b5f2854a138fcf4cd7dc1ae367907e5a147e48185\"), 7)"
        :> <<12, 13, 8, 1, 3, 11, 2, 0, 11, 6, 9, 13, 6, 1, 13, 9, 14, 8, 11, 15, 12, 5, 2, 13, 7, 8, 10, 13, 5, 9, 5, 7, 8, 13, 8, 15, 14, 0, 0, 0, 13, 8, 2, 10, 10, 9, 9, 4, 15, 11, 10, 6, 9, 5, 1, 11, 6, 14, 6, 6, 1, 14, 0, 14>>)))
    @@
    (("(Some(\"cb1167a02fc461d20b9a33f2aaf14f8c842becd37633e057bf113e718b19119d\"), 0)"
        :> <<7, 0, 3, 14, 2, 9, 14, 9, 6, 5, 10, 2, 1, 15, 11, 13, 8, 3, 1, 1, 14, 6, 0, 11, 0, 13, 7, 12, 2, 2, 14, 1, 4, 0, 2, 4, 5, 8, 4, 10, 15, 2, 5, 7, 1, 7, 3, 0, 8, 3, 5, 3, 1, 11, 3, 3, 3, 9, 4, 10, 10, 7, 6, 2>>)
    @@
    (("(Some(\"cb1167a02fc461d20b9a33f2aaf14f8c842becd37633e057bf113e718b19119d\"), 0)0af7ba66f9a27ed0e229221aada0cc88d5d6fd58f46f72eb626bd37b8e94efc8"
        :> <<13, 14, 10, 13, 4, 6, 13, 13, 1, 0, 2, 15, 6, 6, 9, 5, 5, 3, 6, 1, 11, 6, 14, 5, 12, 9, 3, 5, 14, 1, 2, 10, 2, 1, 8, 4, 3, 6, 1, 7, 7, 5, 0, 1, 13, 13, 2, 7, 9, 3, 11, 9, 0, 10, 6, 1, 7, 11, 1, 3, 15, 2, 4, 7>>)
    @@
    ("(Some(\"cb1167a02fc461d20b9a33f2aaf14f8c842becd37633e057bf113e718b19119d\"), 2)"
        :> <<14, 7, 13, 8, 1, 15, 7, 5, 12, 15, 8, 9, 12, 3, 11, 9, 2, 10, 11, 5, 12, 9, 2, 8, 0, 9, 2, 15, 15, 3, 7, 9, 4, 9, 3, 3, 0, 0, 7, 4, 12, 4, 10, 0, 2, 7, 4, 6, 7, 5, 9, 5, 10, 9, 12, 11, 6, 1, 9, 3, 9, 14, 14, 10>>))))
    @@
    ((("(Some(\"cb1167a02fc461d20b9a33f2aaf14f8c842becd37633e057bf113e718b19119d\"), 2)0af7ba66f9a27ed0e229221aada0cc88d5d6fd58f46f72eb626bd37b8e94efc8"
        :> <<8, 6, 2, 6, 1, 12, 4, 9, 5, 6, 14, 9, 15, 8, 10, 12, 5, 8, 1, 0, 12, 4, 0, 6, 5, 14, 7, 12, 14, 12, 5, 2, 13, 7, 12, 12, 14, 15, 11, 4, 9, 5, 14, 11, 12, 9, 8, 5, 7, 4, 13, 15, 0, 6, 7, 9, 9, 5, 15, 0, 11, 4, 4, 8>>)
    @@
    (("(Some(\"cb1167a02fc461d20b9a33f2aaf14f8c842becd37633e057bf113e718b19119d\"), 3)"
        :> <<8, 0, 6, 10, 5, 6, 13, 12, 8, 4, 12, 8, 8, 0, 0, 8, 8, 5, 12, 5, 9, 0, 7, 15, 4, 3, 5, 13, 0, 12, 5, 9, 13, 0, 12, 15, 10, 2, 10, 5, 6, 3, 7, 13, 0, 12, 12, 2, 2, 1, 5, 7, 4, 3, 0, 13, 10, 15, 2, 13, 11, 11, 7, 2>>)
    @@
    ("(Some(\"cb1167a02fc461d20b9a33f2aaf14f8c842becd37633e057bf113e718b19119d\"), 3)0af7ba66f9a27ed0e229221aada0cc88d5d6fd58f46f72eb626bd37b8e94efc8"
        :> <<4, 14, 15, 5, 6, 8, 6, 0, 15, 14, 2, 13, 14, 14, 7, 6, 5, 10, 2, 5, 2, 3, 2, 14, 15, 6, 6, 13, 1, 6, 13, 13, 14, 5, 7, 5, 6, 7, 3, 7, 15, 13, 9, 4, 9, 7, 10, 3, 1, 7, 11, 4, 1, 14, 3, 11, 13, 15, 1, 0, 14, 4, 3, 14>>)))
    @@
    ((("(Some(\"cb1167a02fc461d20b9a33f2aaf14f8c842becd37633e057bf113e718b19119d\"), 4)"
        :> <<0, 3, 0, 15, 6, 2, 3, 14, 14, 1, 3, 12, 4, 0, 9, 14, 13, 15, 5, 0, 7, 9, 1, 4, 4, 5, 9, 11, 2, 9, 0, 6, 5, 11, 9, 6, 13, 8, 7, 8, 5, 15, 12, 10, 6, 7, 7, 3, 10, 7, 13, 6, 0, 4, 9, 12, 5, 10, 3, 5, 0, 11, 1, 14>>)
    @@
    ("(Some(\"cb1167a02fc461d20b9a33f2aaf14f8c842becd37633e057bf113e718b19119d\"), 4)0af7ba66f9a27ed0e229221aada0cc88d5d6fd58f46f72eb626bd37b8e94efc8"
        :> <<8, 10, 6, 4, 13, 5, 6, 5, 10, 2, 12, 2, 0, 11, 12, 9, 6, 4, 0, 10, 15, 1, 9, 2, 14, 13, 11, 6, 13, 5, 7, 6, 4, 14, 4, 1, 14, 2, 12, 10, 6, 10, 15, 5, 8, 13, 13, 12, 13, 12, 2, 14, 4, 14, 8, 8, 5, 1, 6, 3, 12, 4, 6, 14>>))
    @@
    (("(Some(\"cb1167a02fc461d20b9a33f2aaf14f8c842becd37633e057bf113e718b19119d\"), 5)"
        :> <<2, 7, 2, 6, 2, 4, 0, 14, 8, 3, 5, 4, 2, 2, 3, 14, 10, 9, 3, 7, 1, 14, 4, 7, 2, 4, 15, 1, 3, 5, 3, 3, 0, 10, 12, 3, 7, 12, 4, 14, 5, 6, 14, 15, 12, 10, 8, 10, 6, 11, 3, 6, 11, 14, 0, 6, 11, 12, 4, 12, 6, 15, 2, 1>>)
    @@
    ("(Some(\"cb1167a02fc461d20b9a33f2aaf14f8c842becd37633e057bf113e718b19119d\"), 5)0af7ba66f9a27ed0e229221aada0cc88d5d6fd58f46f72eb626bd37b8e94efc8"
        :> <<12, 10, 1, 14, 13, 5, 4, 6, 9, 13, 7, 3, 7, 11, 9, 15, 11, 3, 10, 2, 11, 10, 12, 0, 7, 14, 13, 4, 15, 5, 4, 1, 8, 6, 8, 14, 14, 1, 6, 13, 8, 9, 7, 11, 10, 5, 3, 12, 4, 5, 8, 7, 2, 3, 6, 4, 3, 4, 7, 0, 2, 3, 13, 6>>)))))))
    @@
    (((((("(Some(\"cb1167a02fc461d20b9a33f2aaf14f8c842becd37633e057bf113e718b19119d\"), 6)"
        :> <<11, 15, 12, 13, 2, 6, 2, 2, 6, 4, 3, 0, 3, 2, 12, 4, 14, 9, 12, 8, 1, 13, 4, 6, 7, 1, 14, 15, 14, 7, 0, 7, 15, 13, 8, 9, 8, 9, 0, 3, 9, 1, 13, 7, 4, 4, 15, 0, 10, 1, 3, 12, 7, 13, 6, 15, 7, 4, 2, 11, 3, 13, 9, 8>>)
    @@
    (("(Some(\"cb1167a02fc461d20b9a33f2aaf14f8c842becd37633e057bf113e718b19119d\"), 6)0af7ba66f9a27ed0e229221aada0cc88d5d6fd58f46f72eb626bd37b8e94efc8"
        :> <<0, 2, 15, 7, 13, 0, 7, 7, 9, 6, 15, 5, 10, 15, 12, 3, 11, 10, 5, 5, 2, 7, 5, 12, 6, 6, 0, 6, 15, 0, 10, 3, 12, 5, 1, 9, 3, 4, 9, 4, 4, 7, 0, 2, 3, 5, 0, 1, 13, 2, 4, 11, 12, 15, 8, 2, 12, 7, 7, 14, 4, 9, 5, 5>>)
    @@
    ("(Some(\"cb1167a02fc461d20b9a33f2aaf14f8c842becd37633e057bf113e718b19119d\"), 7)"
        :> <<7, 15, 13, 14, 5, 13, 8, 6, 6, 8, 7, 11, 2, 15, 11, 0, 4, 5, 10, 7, 8, 8, 8, 4, 8, 6, 11, 8, 6, 5, 2, 11, 14, 4, 3, 4, 1, 11, 8, 8, 15, 1, 13, 1, 10, 12, 11, 9, 0, 2, 1, 15, 5, 15, 15, 10, 12, 0, 0, 1, 1, 4, 2, 1>>)))
    @@
    (("(Some(\"cb1167a02fc461d20b9a33f2aaf14f8c842becd37633e057bf113e718b19119d\"), 7)0af7ba66f9a27ed0e229221aada0cc88d5d6fd58f46f72eb626bd37b8e94efc8"
        :> <<13, 15, 1, 10, 15, 5, 2, 12, 12, 11, 11, 8, 1, 1, 8, 8, 12, 15, 1, 7, 4, 0, 7, 10, 3, 9, 5, 7, 12, 4, 10, 13, 3, 1, 13, 10, 4, 1, 8, 6, 3, 12, 6, 12, 5, 15, 8, 5, 4, 7, 1, 15, 10, 15, 6, 2, 12, 2, 4, 4, 13, 5, 14, 12>>)
    @@
    (("(Some(\"d96d21f1c04127c0cbd8f0f2326c433024db1f33537a5c902b74f8ad0a4d3cf9\"), 0)"
        :> <<1, 8, 11, 4, 11, 10, 12, 6, 15, 7, 10, 0, 7, 0, 7, 15, 8, 2, 2, 9, 3, 13, 7, 9, 7, 10, 3, 6, 13, 12, 1, 13, 2, 3, 7, 0, 4, 12, 11, 10, 10, 7, 15, 14, 13, 11, 0, 4, 4, 15, 14, 9, 14, 9, 14, 6, 8, 10, 2, 13, 13, 9, 4, 7>>)
    @@
    ("(Some(\"d96d21f1c04127c0cbd8f0f2326c433024db1f33537a5c902b74f8ad0a4d3cf9\"), 2)"
        :> <<1, 6, 4, 4, 7, 5, 7, 8, 3, 2, 8, 12, 3, 11, 9, 13, 14, 1, 4, 3, 10, 6, 13, 11, 9, 1, 15, 10, 0, 3, 4, 13, 2, 5, 5, 8, 8, 0, 10, 14, 7, 9, 14, 3, 1, 1, 14, 4, 7, 9, 2, 4, 13, 8, 5, 11, 10, 14, 5, 13, 5, 14, 1, 10>>))))
    @@
    ((("(Some(\"d96d21f1c04127c0cbd8f0f2326c433024db1f33537a5c902b74f8ad0a4d3cf9\"), 3)"
        :> <<4, 12, 13, 2, 8, 5, 0, 11, 13, 0, 9, 1, 0, 0, 9, 12, 1, 14, 9, 14, 11, 15, 11, 11, 4, 11, 11, 12, 2, 0, 11, 10, 2, 9, 7, 15, 6, 0, 7, 5, 12, 7, 15, 7, 6, 6, 13, 14, 7, 11, 13, 11, 4, 7, 14, 4, 12, 9, 14, 11, 6, 12, 11, 6>>)
    @@
    (("(Some(\"d96d21f1c04127c0cbd8f0f2326c433024db1f33537a5c902b74f8ad0a4d3cf9\"), 4)"
        :> <<13, 0, 2, 0, 4, 5, 10, 8, 0, 9, 3, 4, 1, 5, 0, 1, 9, 12, 3, 7, 7, 12, 5, 11, 7, 5, 2, 1, 8, 5, 8, 8, 15, 1, 5, 6, 15, 1, 7, 15, 5, 3, 14, 6, 5, 5, 6, 5, 5, 15, 3, 6, 6, 4, 13, 9, 13, 7, 1, 5, 11, 4, 12, 15>>)
    @@
    ("(Some(\"d96d21f1c04127c0cbd8f0f2326c433024db1f33537a5c902b74f8ad0a4d3cf9\"), 5)"
        :> <<11, 5, 10, 6, 0, 3, 9, 7, 10, 8, 5, 4, 8, 0, 4, 2, 1, 11, 3, 15, 4, 10, 1, 3, 11, 6, 3, 2, 4, 4, 10, 8, 11, 0, 11, 3, 3, 3, 1, 3, 9, 9, 11, 9, 14, 6, 13, 12, 0, 0, 2, 13, 2, 0, 8, 7, 4, 12, 4, 2, 12, 9, 10, 14>>)))
    @@
    ((("(Some(\"d96d21f1c04127c0cbd8f0f2326c433024db1f33537a5c902b74f8ad0a4d3cf9\"), 6)"
        :> <<9, 14, 2, 11, 3, 11, 5, 12, 1, 12, 7, 7, 15, 7, 15, 9, 0, 5, 3, 1, 15, 10, 2, 9, 5, 15, 11, 13, 7, 12, 12, 8, 4, 4, 3, 2, 5, 15, 4, 15, 3, 2, 5, 6, 11, 5, 12, 4, 10, 8, 8, 14, 7, 10, 15, 14, 8, 10, 13, 5, 3, 6, 12, 8>>)
    @@
    ("(Some(\"d96d21f1c04127c0cbd8f0f2326c433024db1f33537a5c902b74f8ad0a4d3cf9\"), 7)"
        :> <<10, 13, 5, 3, 7, 2, 2, 2, 11, 1, 3, 11, 13, 4, 6, 9, 7, 9, 8, 2, 5, 8, 15, 4, 13, 0, 6, 2, 4, 15, 1, 12, 6, 3, 7, 8, 0, 11, 12, 11, 14, 8, 7, 0, 14, 0, 6, 6, 7, 7, 14, 13, 13, 3, 2, 15, 0, 3, 11, 5, 12, 6, 3, 15>>))
    @@
    (("(Some(\"dead46dd102f66955361b6e5c935e12a218436177501dd2793b90a617b13f247\"), 0)"
        :> <<4, 3, 14, 8, 6, 5, 6, 9, 2, 10, 14, 9, 15, 4, 5, 6, 1, 3, 8, 12, 14, 12, 2, 6, 15, 3, 2, 3, 5, 10, 10, 6, 3, 2, 7, 11, 4, 1, 13, 5, 12, 5, 3, 15, 15, 11, 7, 6, 4, 2, 8, 10, 1, 1, 15, 5, 8, 15, 11, 11, 5, 4, 3, 4>>)
    @@
    ("(Some(\"dead46dd102f66955361b6e5c935e12a218436177501dd2793b90a617b13f247\"), 2)"
        :> <<9, 5, 12, 10, 12, 8, 14, 9, 13, 1, 7, 2, 5, 8, 5, 8, 13, 13, 6, 7, 12, 9, 13, 14, 11, 13, 2, 13, 3, 3, 13, 10, 14, 7, 5, 3, 13, 10, 3, 0, 1, 11, 1, 10, 9, 10, 3, 1, 14, 0, 9, 0, 4, 4, 2, 7, 7, 2, 10, 5, 9, 2, 15, 1>>)))))
    @@
    (((("(Some(\"dead46dd102f66955361b6e5c935e12a218436177501dd2793b90a617b13f247\"), 3)"
        :> <<15, 12, 7, 14, 2, 14, 8, 9, 5, 14, 10, 1, 14, 13, 14, 1, 10, 2, 8, 7, 10, 7, 2, 2, 8, 15, 9, 11, 2, 2, 10, 1, 6, 11, 0, 10, 11, 1, 14, 6, 10, 4, 14, 4, 11, 10, 11, 1, 7, 7, 3, 5, 15, 9, 8, 2, 14, 13, 15, 8, 7, 14, 4, 8>>)
    @@
    (("(Some(\"dead46dd102f66955361b6e5c935e12a218436177501dd2793b90a617b13f247\"), 4)"
        :> <<15, 15, 8, 11, 13, 2, 15, 5, 15, 14, 8, 2, 8, 0, 14, 2, 12, 8, 5, 8, 1, 15, 8, 13, 11, 6, 9, 8, 14, 2, 14, 15, 5, 9, 15, 11, 12, 2, 1, 12, 12, 3, 11, 1, 13, 3, 13, 6, 2, 13, 3, 5, 9, 7, 0, 5, 3, 5, 1, 12, 2, 4, 8, 15>>)
    @@
    ("(Some(\"dead46dd102f66955361b6e5c935e12a218436177501dd2793b90a617b13f247\"), 5)"
        :> <<14, 1, 8, 6, 2, 1, 2, 1, 3, 10, 4, 15, 0, 13, 6, 0, 7, 8, 9, 5, 10, 3, 4, 15, 10, 11, 4, 12, 10, 11, 11, 2, 2, 12, 7, 4, 9, 15, 9, 4, 3, 3, 6, 3, 14, 5, 15, 5, 1, 3, 13, 14, 7, 1, 6, 11, 4, 5, 3, 4, 13, 15, 8, 10>>)))
    @@
    (("(Some(\"dead46dd102f66955361b6e5c935e12a218436177501dd2793b90a617b13f247\"), 6)"
        :> <<0, 12, 15, 0, 1, 10, 6, 1, 14, 2, 4, 4, 11, 9, 12, 12, 13, 15, 7, 7, 15, 7, 10, 7, 4, 15, 9, 11, 5, 5, 13, 4, 11, 9, 7, 6, 8, 7, 3, 7, 3, 4, 5, 7, 5, 5, 10, 4, 6, 9, 8, 1, 15, 5, 2, 1, 14, 15, 4, 15, 8, 8, 0, 0>>)
    @@
    (("(Some(\"dead46dd102f66955361b6e5c935e12a218436177501dd2793b90a617b13f247\"), 7)"
        :> <<11, 14, 8, 13, 14, 7, 5, 2, 13, 12, 5, 14, 2, 13, 14, 4, 0, 9, 11, 1, 2, 9, 0, 5, 7, 8, 4, 4, 13, 8, 6, 4, 5, 10, 1, 2, 10, 1, 8, 11, 2, 9, 6, 15, 1, 10, 9, 11, 10, 4, 1, 2, 2, 5, 13, 14, 14, 0, 8, 0, 5, 5, 13, 2>>)
    @@
    ("(Some(\"e8a1ae86e6f3c8d0d58a2c23640d4798b0e6f8b24d976ce67685e42ca32a63e0\"), 0)"
        :> <<10, 6, 1, 0, 12, 4, 1, 13, 5, 14, 13, 4, 1, 4, 3, 15, 12, 11, 4, 7, 13, 7, 7, 0, 6, 4, 6, 6, 6, 4, 15, 1, 14, 2, 14, 1, 12, 2, 10, 1, 13, 8, 7, 12, 9, 5, 10, 2, 13, 7, 7, 3, 0, 12, 3, 14, 6, 5, 5, 9, 9, 12, 10, 10>>))))
    @@
    ((("(Some(\"e8a1ae86e6f3c8d0d58a2c23640d4798b0e6f8b24d976ce67685e42ca32a63e0\"), 2)"
        :> <<2, 11, 2, 8, 8, 5, 8, 0, 13, 4, 5, 5, 13, 4, 5, 14, 9, 12, 4, 15, 1, 6, 3, 12, 14, 1, 5, 8, 7, 15, 12, 11, 1, 0, 12, 8, 8, 1, 6, 15, 15, 14, 15, 13, 8, 6, 0, 11, 3, 1, 13, 8, 13, 12, 1, 1, 10, 8, 2, 5, 2, 0, 9, 10>>)
    @@
    (("(Some(\"e8a1ae86e6f3c8d0d58a2c23640d4798b0e6f8b24d976ce67685e42ca32a63e0\"), 3)"
        :> <<12, 11, 10, 13, 3, 7, 10, 12, 10, 13, 11, 1, 13, 8, 10, 13, 3, 13, 9, 12, 10, 6, 10, 4, 11, 3, 10, 12, 4, 3, 3, 9, 10, 0, 15, 1, 15, 6, 2, 1, 14, 13, 7, 4, 3, 8, 0, 14, 10, 9, 2, 15, 9, 6, 6, 2, 0, 10, 6, 1, 3, 14, 3, 3>>)
    @@
    ("(Some(\"e8a1ae86e6f3c8d0d58a2c23640d4798b0e6f8b24d976ce67685e42ca32a63e0\"), 4)"
        :> <<2, 0, 15, 0, 7, 13, 9, 10, 10, 8, 14, 7, 0, 10, 13, 4, 13, 0, 10, 10, 3, 14, 14, 1, 12, 6, 3, 3, 3, 4, 12, 12, 11, 4, 1, 12, 7, 2, 14, 6, 0, 0, 15, 14, 7, 12, 8, 11, 6, 7, 15, 9, 4, 9, 13, 14, 5, 5, 6, 14, 0, 4, 9, 1>>)))
    @@
    ((("(Some(\"e8a1ae86e6f3c8d0d58a2c23640d4798b0e6f8b24d976ce67685e42ca32a63e0\"), 5)"
        :> <<5, 3, 7, 7, 13, 9, 11, 4, 10, 3, 0, 6, 4, 10, 12, 10, 0, 9, 10, 11, 9, 0, 11, 2, 14, 15, 15, 2, 11, 0, 8, 3, 8, 12, 2, 11, 11, 2, 14, 15, 9, 13, 15, 3, 7, 12, 4, 14, 5, 11, 12, 8, 6, 9, 15, 13, 5, 4, 0, 9, 13, 6, 11, 1>>)
    @@
    ("(Some(\"e8a1ae86e6f3c8d0d58a2c23640d4798b0e6f8b24d976ce67685e42ca32a63e0\"), 6)"
        :> <<6, 2, 10, 9, 0, 3, 15, 14, 11, 6, 13, 2, 10, 10, 11, 3, 1, 5, 12, 11, 7, 12, 7, 1, 2, 4, 0, 7, 0, 3, 11, 7, 5, 14, 15, 8, 2, 13, 3, 2, 11, 2, 0, 4, 5, 9, 4, 6, 9, 1, 4, 14, 9, 13, 9, 2, 0, 15, 8, 4, 3, 4, 12, 15>>))
    @@
    (("(Some(\"e8a1ae86e6f3c8d0d58a2c23640d4798b0e6f8b24d976ce67685e42ca32a63e0\"), 7)"
        :> <<6, 0, 1, 0, 10, 9, 11, 7, 13, 2, 11, 13, 4, 2, 0, 3, 11, 2, 11, 12, 6, 0, 14, 14, 8, 12, 0, 15, 13, 13, 4, 0, 7, 9, 12, 13, 4, 0, 4, 2, 2, 12, 3, 7, 5, 5, 10, 4, 5, 7, 3, 14, 3, 4, 0, 10, 10, 14, 4, 15, 1, 3, 10, 12>>)
    @@
    ("(Some(\"f3432ebb3110d93fab67ec35b8fc30e45fe0d4e6ceae5e974d0d5c9e55a08b9a\"), 0)"
        :> <<4, 13, 7, 9, 6, 15, 7, 2, 6, 4, 8, 5, 4, 0, 14, 2, 0, 14, 15, 8, 14, 6, 8, 11, 8, 5, 8, 0, 15, 0, 5, 7, 2, 15, 9, 14, 3, 11, 14, 8, 9, 2, 9, 13, 10, 12, 15, 8, 0, 4, 14, 11, 0, 7, 4, 1, 4, 1, 11, 7, 3, 2, 6, 7>>))))))
    @@
    ((((("(Some(\"f3432ebb3110d93fab67ec35b8fc30e45fe0d4e6ceae5e974d0d5c9e55a08b9a\"), 2)"
        :> <<12, 2, 6, 0, 6, 11, 2, 10, 15, 9, 2, 15, 15, 0, 2, 15, 8, 5, 13, 2, 4, 0, 8, 2, 10, 3, 4, 11, 13, 10, 8, 11, 6, 2, 15, 12, 14, 3, 14, 10, 0, 11, 9, 8, 3, 10, 7, 3, 12, 7, 15, 12, 5, 6, 4, 10, 3, 15, 12, 3, 13, 12, 0, 4>>)
    @@
    (("(Some(\"f3432ebb3110d93fab67ec35b8fc30e45fe0d4e6ceae5e974d0d5c9e55a08b9a\"), 3)"
        :> <<11, 12, 3, 13, 0, 5, 14, 0, 14, 10, 8, 14, 8, 10, 1, 7, 8, 4, 0, 6, 7, 7, 14, 8, 9, 1, 3, 7, 1, 1, 1, 2, 10, 4, 13, 1, 7, 2, 11, 8, 13, 3, 13, 10, 3, 12, 10, 5, 12, 4, 3, 8, 0, 5, 0, 10, 8, 5, 10, 0, 13, 0, 4, 10>>)
    @@
    ("(Some(\"f3432ebb3110d93fab67ec35b8fc30e45fe0d4e6ceae5e974d0d5c9e55a08b9a\"), 4)"
        :> <<6, 12, 0, 4, 14, 15, 15, 7, 7, 13, 8, 9, 0, 10, 3, 13, 1, 3, 9, 8, 12, 9, 6, 11, 15, 0, 0, 15, 12, 4, 8, 8, 14, 0, 0, 5, 13, 0, 9, 6, 11, 13, 5, 15, 14, 0, 9, 5, 13, 7, 5, 8, 15, 11, 7, 3, 14, 8, 3, 14, 10, 10, 2, 4>>)))
    @@
    (("(Some(\"f3432ebb3110d93fab67ec35b8fc30e45fe0d4e6ceae5e974d0d5c9e55a08b9a\"), 5)"
        :> <<15, 1, 8, 6, 1, 2, 2, 10, 5, 11, 5, 15, 14, 12, 11, 15, 2, 9, 8, 13, 14, 2, 0, 2, 6, 5, 13, 7, 5, 3, 5, 14, 0, 10, 10, 4, 11, 2, 11, 13, 4, 1, 8, 7, 3, 11, 12, 5, 5, 15, 6, 9, 6, 5, 3, 0, 1, 4, 15, 3, 2, 14, 2, 6>>)
    @@
    (("(Some(\"f3432ebb3110d93fab67ec35b8fc30e45fe0d4e6ceae5e974d0d5c9e55a08b9a\"), 6)"
        :> <<6, 2, 8, 11, 2, 3, 10, 8, 9, 5, 9, 10, 8, 6, 8, 12, 6, 8, 8, 4, 9, 2, 3, 10, 3, 10, 1, 7, 2, 9, 8, 3, 12, 3, 3, 7, 6, 11, 11, 4, 15, 12, 8, 5, 3, 5, 6, 10, 4, 14, 9, 5, 11, 2, 6, 14, 14, 3, 10, 9, 3, 8, 10, 5>>)
    @@
    ("(Some(\"f3432ebb3110d93fab67ec35b8fc30e45fe0d4e6ceae5e974d0d5c9e55a08b9a\"), 7)"
        :> <<13, 13, 3, 11, 15, 13, 4, 3, 15, 8, 5, 3, 8, 12, 11, 14, 14, 14, 2, 7, 3, 8, 3, 11, 10, 13, 10, 12, 14, 6, 9, 15, 3, 2, 3, 12, 2, 13, 6, 14, 13, 7, 0, 4, 5, 5, 5, 4, 3, 2, 4, 1, 5, 3, 0, 5, 4, 6, 2, 13, 13, 5, 1, 1>>))))
    @@
    ((("(Some(\"f402be728ac95e31ce1f24e44c6d5abde635766eda49ed864a1f6d4a1fca92d3\"), 0)"
        :> <<4, 15, 2, 11, 9, 10, 1, 14, 14, 4, 13, 1, 9, 6, 11, 3, 14, 13, 11, 4, 10, 12, 4, 4, 7, 11, 11, 6, 11, 0, 9, 4, 13, 9, 11, 15, 5, 14, 2, 3, 11, 3, 5, 9, 13, 2, 9, 2, 7, 5, 13, 5, 8, 7, 3, 9, 14, 12, 8, 15, 11, 0, 12, 9>>)
    @@
    (("(Some(\"f402be728ac95e31ce1f24e44c6d5abde635766eda49ed864a1f6d4a1fca92d3\"), 2)"
        :> <<4, 15, 6, 1, 9, 8, 13, 3, 15, 9, 0, 6, 11, 13, 8, 2, 1, 6, 0, 14, 4, 2, 2, 8, 1, 14, 5, 10, 7, 4, 13, 13, 15, 15, 10, 5, 4, 15, 15, 13, 3, 13, 9, 4, 3, 0, 6, 13, 6, 0, 7, 4, 2, 9, 7, 4, 13, 3, 7, 11, 0, 10, 1, 2>>)
    @@
    ("(Some(\"f402be728ac95e31ce1f24e44c6d5abde635766eda49ed864a1f6d4a1fca92d3\"), 3)"
        :> <<2, 11, 9, 14, 13, 13, 10, 5, 5, 5, 3, 13, 3, 7, 7, 11, 6, 2, 1, 6, 1, 5, 7, 3, 0, 15, 1, 8, 12, 7, 8, 3, 2, 14, 5, 11, 13, 14, 6, 5, 9, 13, 12, 1, 11, 1, 14, 0, 6, 9, 6, 2, 2, 4, 14, 4, 7, 4, 12, 9, 9, 11, 14, 5>>)))
    @@
    ((("(Some(\"f402be728ac95e31ce1f24e44c6d5abde635766eda49ed864a1f6d4a1fca92d3\"), 4)"
        :> <<9, 8, 12, 9, 13, 12, 5, 8, 7, 6, 2, 11, 10, 3, 15, 11, 0, 2, 3, 1, 0, 10, 7, 4, 6, 1, 4, 13, 5, 6, 3, 5, 5, 12, 12, 14, 2, 5, 0, 7, 9, 2, 15, 3, 5, 10, 8, 1, 12, 9, 3, 0, 2, 15, 7, 1, 5, 9, 3, 4, 15, 9, 10, 15>>)
    @@
    ("(Some(\"f402be728ac95e31ce1f24e44c6d5abde635766eda49ed864a1f6d4a1fca92d3\"), 5)"
        :> <<1, 8, 8, 14, 2, 6, 5, 4, 11, 8, 4, 12, 5, 2, 11, 8, 13, 3, 1, 14, 6, 2, 12, 3, 11, 8, 14, 14, 4, 2, 2, 13, 4, 3, 1, 14, 12, 0, 2, 0, 0, 12, 1, 12, 10, 3, 7, 10, 11, 3, 12, 1, 14, 8, 9, 2, 3, 1, 4, 9, 0, 13, 4, 5>>))
    @@
    (("(Some(\"f402be728ac95e31ce1f24e44c6d5abde635766eda49ed864a1f6d4a1fca92d3\"), 6)"
        :> <<14, 15, 1, 10, 13, 2, 1, 4, 3, 4, 10, 11, 11, 0, 2, 3, 9, 1, 9, 12, 15, 8, 0, 6, 4, 14, 14, 14, 15, 9, 10, 7, 14, 1, 3, 11, 5, 10, 1, 6, 11, 3, 9, 14, 10, 6, 7, 13, 1, 8, 0, 8, 11, 8, 7, 4, 11, 5, 6, 9, 1, 6, 5, 10>>)
    @@
    ("(Some(\"f402be728ac95e31ce1f24e44c6d5abde635766eda49ed864a1f6d4a1fca92d3\"), 7)"
        :> <<5, 4, 12, 10, 11, 9, 13, 11, 9, 15, 15, 14, 4, 13, 15, 15, 1, 2, 2, 0, 4, 2, 11, 0, 15, 9, 0, 10, 11, 9, 14, 10, 11, 0, 5, 11, 10, 10, 6, 1, 13, 7, 14, 13, 14, 5, 10, 14, 8, 4, 15, 10, 4, 0, 9, 4, 8, 14, 1, 6, 6, 5, 6, 1>>)))))
    @@
    (((("(Some(\"fa29e87e80d4891af27ad20c8e741f58faeb17ba2a09a2a02ea4d96318d7c01b\"), 0)"
        :> <<15, 3, 8, 10, 0, 10, 14, 2, 3, 11, 0, 13, 6, 14, 14, 3, 12, 8, 5, 10, 15, 5, 14, 5, 9, 15, 6, 3, 0, 1, 8, 11, 1, 14, 9, 13, 5, 2, 2, 4, 4, 5, 11, 3, 13, 2, 7, 13, 14, 7, 2, 4, 6, 10, 10, 15, 13, 4, 15, 10, 3, 7, 7, 8>>)
    @@
    (("(Some(\"fa29e87e80d4891af27ad20c8e741f58faeb17ba2a09a2a02ea4d96318d7c01b\"), 2)"
        :> <<6, 15, 3, 15, 2, 15, 4, 0, 11, 3, 10, 14, 9, 2, 3, 6, 13, 10, 14, 8, 1, 5, 6, 15, 4, 3, 7, 6, 3, 8, 10, 9, 15, 3, 2, 15, 6, 11, 5, 13, 0, 13, 12, 9, 8, 10, 13, 4, 1, 4, 3, 15, 11, 9, 9, 1, 12, 3, 13, 5, 14, 11, 1, 4>>)
    @@
    ("(Some(\"fa29e87e80d4891af27ad20c8e741f58faeb17ba2a09a2a02ea4d96318d7c01b\"), 3)"
        :> <<6, 11, 5, 14, 8, 2, 10, 5, 15, 4, 3, 8, 15, 1, 7, 11, 12, 5, 2, 0, 11, 0, 2, 0, 3, 9, 2, 1, 2, 8, 3, 10, 9, 15, 8, 7, 15, 6, 9, 8, 15, 2, 11, 10, 9, 8, 4, 9, 13, 11, 11, 9, 10, 1, 0, 12, 14, 4, 0, 9, 7, 2, 2, 15>>)))
    @@
    ((("(Some(\"fa29e87e80d4891af27ad20c8e741f58faeb17ba2a09a2a02ea4d96318d7c01b\"), 4)"
        :> <<4, 10, 8, 2, 2, 11, 14, 1, 8, 9, 10, 11, 14, 10, 10, 7, 12, 5, 14, 9, 1, 13, 12, 9, 12, 9, 3, 4, 15, 2, 15, 5, 9, 2, 4, 2, 10, 14, 13, 3, 7, 12, 7, 2, 15, 11, 12, 7, 15, 11, 14, 4, 13, 6, 7, 7, 8, 0, 7, 5, 9, 4, 1, 0>>)
    @@
    ("(Some(\"fa29e87e80d4891af27ad20c8e741f58faeb17ba2a09a2a02ea4d96318d7c01b\"), 5)"
        :> <<11, 1, 7, 0, 2, 15, 12, 10, 9, 14, 6, 9, 15, 1, 9, 14, 3, 7, 5, 4, 15, 13, 5, 10, 14, 14, 8, 13, 5, 4, 9, 13, 7, 11, 10, 6, 2, 2, 1, 7, 10, 11, 6, 14, 3, 2, 2, 14, 14, 3, 12, 6, 4, 0, 6, 1, 2, 13, 1, 10, 1, 3, 8, 12>>))
    @@
    (("(Some(\"fa29e87e80d4891af27ad20c8e741f58faeb17ba2a09a2a02ea4d96318d7c01b\"), 6)"
        :> <<11, 10, 14, 2, 6, 6, 10, 14, 0, 0, 6, 3, 2, 13, 8, 10, 15, 8, 1, 7, 0, 3, 11, 10, 12, 11, 9, 8, 7, 9, 3, 2, 5, 10, 14, 12, 0, 12, 4, 6, 5, 15, 15, 8, 11, 10, 7, 1, 13, 4, 6, 8, 4, 1, 10, 5, 14, 6, 9, 9, 6, 11, 6, 6>>)
    @@
    ("(Some(\"fa29e87e80d4891af27ad20c8e741f58faeb17ba2a09a2a02ea4d96318d7c01b\"), 7)"
        :> <<3, 8, 9, 15, 14, 7, 0, 1, 0, 6, 2, 14, 5, 15, 5, 0, 7, 3, 14, 7, 4, 10, 14, 9, 15, 13, 7, 1, 8, 2, 14, 2, 15, 2, 8, 8, 1, 12, 10, 11, 0, 10, 8, 2, 3, 6, 15, 15, 2, 9, 3, 0, 0, 9, 9, 15, 1, 14, 8, 12, 13, 7, 5, 8>>))))
    @@
    ((("(Some(\"fa584a8edd849e0c29127a15382c6ea4a73f2475bcea00772672b2b1a2bd1edc\"), 0)"
        :> <<7, 3, 7, 7, 13, 12, 12, 14, 14, 3, 8, 1, 10, 12, 2, 2, 5, 6, 8, 6, 7, 4, 3, 0, 12, 9, 2, 6, 3, 11, 1, 7, 12, 15, 2, 5, 13, 7, 11, 12, 6, 8, 11, 4, 10, 12, 2, 15, 2, 8, 13, 3, 0, 15, 15, 12, 2, 7, 1, 6, 10, 0, 2, 5>>)
    @@
    (("(Some(\"fa584a8edd849e0c29127a15382c6ea4a73f2475bcea00772672b2b1a2bd1edc\"), 2)"
        :> <<7, 9, 13, 9, 7, 15, 14, 1, 2, 10, 6, 15, 4, 9, 15, 1, 4, 2, 11, 4, 15, 13, 13, 14, 14, 10, 14, 3, 7, 10, 0, 11, 12, 15, 3, 5, 10, 2, 0, 13, 2, 15, 1, 13, 7, 7, 11, 11, 1, 8, 4, 7, 12, 15, 10, 7, 7, 11, 0, 9, 5, 7, 3, 5>>)
    @@
    ("(Some(\"fa584a8edd849e0c29127a15382c6ea4a73f2475bcea00772672b2b1a2bd1edc\"), 3)"
        :> <<12, 4, 14, 0, 1, 11, 6, 0, 1, 3, 14, 10, 5, 7, 6, 9, 14, 4, 2, 12, 8, 15, 1, 12, 6, 9, 3, 6, 14, 4, 3, 8, 4, 15, 0, 8, 0, 7, 15, 14, 15, 3, 7, 11, 12, 1, 11, 2, 0, 0, 0, 0, 6, 9, 14, 12, 4, 8, 0, 6, 6, 9, 9, 1>>)))
    @@
    ((("(Some(\"fa584a8edd849e0c29127a15382c6ea4a73f2475bcea00772672b2b1a2bd1edc\"), 4)"
        :> <<12, 13, 5, 2, 9, 7, 12, 7, 3, 10, 1, 0, 10, 4, 4, 15, 5, 7, 3, 3, 11, 10, 2, 0, 10, 5, 5, 0, 4, 0, 0, 1, 13, 8, 7, 15, 3, 0, 6, 11, 12, 11, 0, 9, 1, 12, 1, 15, 8, 8, 14, 0, 10, 5, 1, 11, 5, 14, 2, 5, 6, 10, 10, 2>>)
    @@
    ("(Some(\"fa584a8edd849e0c29127a15382c6ea4a73f2475bcea00772672b2b1a2bd1edc\"), 5)"
        :> <<11, 2, 0, 0, 12, 10, 8, 7, 2, 6, 0, 1, 3, 15, 3, 0, 4, 15, 9, 2, 1, 7, 11, 10, 10, 13, 8, 13, 0, 13, 13, 11, 14, 13, 0, 0, 3, 8, 3, 8, 13, 2, 5, 10, 4, 0, 1, 9, 2, 3, 0, 12, 3, 2, 10, 11, 10, 12, 6, 9, 15, 3, 8, 3>>))
    @@
    (("(Some(\"fa584a8edd849e0c29127a15382c6ea4a73f2475bcea00772672b2b1a2bd1edc\"), 6)"
        :> <<9, 10, 10, 0, 10, 15, 14, 13, 12, 1, 2, 2, 1, 10, 13, 12, 0, 11, 3, 0, 2, 13, 4, 7, 6, 13, 4, 3, 8, 9, 11, 6, 2, 8, 0, 9, 9, 2, 1, 3, 15, 0, 15, 4, 4, 4, 13, 5, 0, 1, 6, 0, 7, 4, 4, 1, 2, 5, 13, 9, 4, 5, 13, 11>>)
    @@
    ("(Some(\"fa584a8edd849e0c29127a15382c6ea4a73f2475bcea00772672b2b1a2bd1edc\"), 7)"
        :> <<1, 9, 8, 11, 15, 1, 11, 7, 4, 2, 4, 5, 14, 11, 5, 13, 3, 5, 6, 12, 12, 15, 13, 0, 11, 1, 5, 14, 2, 12, 6, 7, 5, 1, 14, 11, 8, 6, 6, 14, 1, 7, 15, 2, 1, 1, 6, 2, 7, 4, 6, 8, 12, 13, 6, 7, 8, 12, 14, 8, 2, 15, 10, 15>>))))))))))))

\* hex::encode of every digest of the table, computed once
HexOfDigest == [input \in DOMAIN Blake2s |-> hex_encode(Blake2s[input])]

RECURSIVE hasher_input(_)
RECURSIVE hashes_hex(_)

\* the String a hash() call returns: hex::encode of the digest
hash_string(hash) == HexOfDigest[hasher_input(hash)]

\* the hex strings of a list of digests, one after the other
hashes_hex(hashes) ==
    IF Len(hashes) = 0 THEN ""
    ELSE hash_string(Head(hashes)) \o hashes_hex(Tail(hashes))

\* the bytes fed to the hasher for a digest of the model: for a transaction
\* format!("{:?}", (nonce, timestamp, from, data)); for a block
\* format!("{:?}", (prev_hash, nonce)) followed by the hash of every
\* transaction
hasher_input(hash) ==
    IF Len(hash) = 4
    THEN "(" \o Debug_u128(hash[1]) \o ", " \o ToString(hash[2]) \o ", "
             \o Debug_option(hash[3]) \o ", " \o Debug_data(hash[4]) \o ")"
    ELSE "(" \o (IF is_none(hash[1]) THEN "None"
                 ELSE "Some(" \o Debug_str(hash_string(unwrap(hash[1])))
                          \o ")")
             \o ", " \o Debug_u128(hash[2]) \o ")" \o hashes_hex(hash[3])

\* the 64 hexadecimal characters (as digits 0..15) of a digest
HexDigits(hash) == Blake2s[hasher_input(hash)]

\* index (from 0) of the first character other than '0', 0 when there is none
first_nonzero(s) ==
    IF \E i \in 1..Len(s) : s[i] # 0
    THEN (CHOOSE i \in 1..Len(s) : s[i] # 0 /\ \A j \in 1..(i - 1) : s[j] = 0) - 1
    ELSE 0

\* while hash[..6].ends_with("0") { hash.insert(0, '0') }
RECURSIVE pad_front(_)
pad_front(s) == IF s[6] = 0 THEN pad_front(<<0>> \o s) ELSE s

\* the value of the hexadecimal characters s
RECURSIVE from_str_radix(_)
from_str_radix(s) ==
    IF Len(s) = 0 THEN 0
    ELSE 16 * from_str_radix(SubSeq(s, 1, Len(s) - 1)) + s[Len(s)]

\* format!("{:x}", n)
RECURSIVE format_hex(_)
format_hex(n) ==
    IF n < 16 THEN <<n>> ELSE format_hex(n \div 16) \o <<n % 16>>

\* get_bits_from_hash on the characters of a digest
bits_of_hex(s) ==
    LET a == first_nonzero(s)
        stripped == SubSeq(s, a + 1, Len(s))
        padded == pad_front(stripped)
        hash == IF Len(padded) % 2 # 0 THEN padded \o <<0>> ELSE padded
        exponent == format_hex(Len(hash) \div 2)
        coefficient == SubSeq(hash, 1, 6)
    IN  from_str_radix(exponent \o coefficient)

\* get_bits_from_hash of every digest of the table, computed once
BitsOfDigest == [input \in DOMAIN Blake2s |-> bits_of_hex(Blake2s[input])]

\* get_bits_from_hash: bits_of_hex(HexDigits(hash))
get_bits_from_hash(hash) == BitsOfDigest[hasher_input(hash)]

(***************************************************************************)
(* Block (types/block.rs)                                                  *)
(***************************************************************************)
\* impl Hashable for Block: digest of (prev_hash, nonce) followed by the
\* hash of every transaction in order; timestamp and stored hash are not hashed
Block_hash(block) ==
    <<block.prev_hash, block.nonce,
      [i \in 1..Len(block.transactions) |-> Transaction_hash(block.transactions[i])]>>

\* Block::update_hash
update_hash(block) == [block EXCEPT !.hash = Some(Block_hash(block))]

\* Block::new
Block_new(prev_hash) ==
    update_hash([nonce |-> 0, hash |-> None, prev_hash |-> prev_hash,
                 transactions |-> <<>>])

\* Block::default() (derive(Default)): no hash, no prev_hash, no transactions
Block_default ==
    [nonce |-> 0, hash |-> None, prev_hash |-> None, transactions |-> <<>>]

\* Block::set_nonce
set_nonce(block, nonce) == update_hash([block EXCEPT !.nonce = nonce])

\* add_transaction that leaves the stored hash as it was
add_transaction_no_update(block, transaction) ==
    [block EXCEPT !.transactions = Append(@, transaction)]

\* Block::add_transaction
add_transaction(block, transaction) ==
    update_hash([block EXCEPT !.transactions = Append(@, transaction)])

\* Block::verify
Block_verify(block) ==
    is_some(block.hash) /\ unwrap(block.hash) = Block_hash(block)

\* the loop of utils::append_block_with_tx: add_transaction for each tx
RECURSIVE add_transactions(_, _)
add_transactions(block, transactions) ==
    IF Len(transactions) = 0 THEN block
    ELSE add_transactions(add_transaction(block, Head(transactions)),
                          Tail(transactions))

\* the block utils::append_block_with_tx builds: new, set_nonce, add each tx
build_block(prev_hash, nonce, transactions) ==
    add_transactions(set_nonce(Block_new(prev_hash), nonce), transactions)

\* `block.transactions[i].data = data` on a built block (pub(crate) fields):
\* the stored hash is left as it was
tamper_block(block, i, data) ==
    [block EXCEPT !.transactions[i].data = data]

(***************************************************************************)
(* Blockchain (types/blockchain.rs).  `blocks` lists the chain in the      *)
(* order of appending: blocks[1] is the genesis block and the last element *)
(* is the head; Chain::iter visits the head first.                         *)
(***************************************************************************)
\* the loop of append_block without the early return: it runs every
\* transaction and reports the last error
RECURSIVE execute_all_keep_going(_, _, _, _, _)
execute_all_keep_going(transactions, i, state, is_genesis, checks) ==
    IF i > Len(transactions)
    THEN [res |-> Ok, accounts |-> state, executed |-> i - 1]
    ELSE LET r == execute(transactions[i], state, is_genesis, checks)
             rest == execute_all_keep_going(transactions, i + 1, r.accounts,
                                            is_genesis, checks)
         IN  IF r.res # Ok /\ rest.res = Ok
             THEN [res |-> r.res, accounts |-> r.accounts, executed |-> i - 1]
             ELSE rest

\* the `for tx in &block.transactions` loop of append_block from position i:
\* stops at the first transaction that does not return Ok
RECURSIVE execute_all(_, _, _, _, _)
execute_all(transactions, i, state, is_genesis, checks) ==
    IF i > Len(transactions)
    THEN [res |-> Ok, accounts |-> state, executed |-> i - 1]
    ELSE LET r == execute(transactions[i], state, is_genesis, checks)
         IN  IF r.res # Ok
             THEN [res |-> r.res, accounts |-> r.accounts, executed |-> i - 1]
             ELSE execute_all(transactions, i + 1, r.accounts, is_genesis, checks)

\* append_block that returns the transaction error without restoring
\* account_backup
append_block_no_restore(chain, state, block, checks) ==
    IF ~Block_verify(block)
    THEN [res |-> ERR_INVALID_HASH, blocks |-> chain, accounts |-> state,
          executed |-> 0]
    ELSE IF Len(block.transactions) = 0
    THEN [res |-> ERR_EMPTY_BLOCK, blocks |-> chain, accounts |-> state,
          executed |-> 0]
    ELSE LET run == execute_all(block.transactions, 1, state, Len(chain) = 0, checks)
         IN
    IF run.res = PANIC
    THEN [res |-> PANIC, blocks |-> chain, accounts |-> run.accounts,
          executed |-> run.executed]
    ELSE IF run.res # Ok
    THEN [res |-> ERR_TX_PREFIX \o run.res, blocks |-> chain,
          accounts |-> run.accounts, executed |-> run.executed]
    ELSE [res |-> Ok, blocks |-> Append(chain, block), accounts |-> run.accounts,
          executed |-> run.executed]

\* append_block that tests for an empty block before it verifies the hash
append_block_empty_first(chain, state, block, checks) ==
    IF Len(block.transactions) = 0
    THEN [res |-> ERR_EMPTY_BLOCK, blocks |-> chain, accounts |-> state,
          executed |-> 0]
    ELSE append_block_no_restore(chain, state, block, checks)

\* append_block with a proof-of-work gate against a target of its own
\* (no hash is below it) instead of the target the block was mined for
append_block_other_target(chain, state, block, checks) ==
    IF is_some(block.hash) /\ ~(get_bits_from_hash(unwrap(block.hash)) < 1)
    THEN [res |-> ERR_INVALID_HASH, blocks |-> chain, accounts |-> state,
          executed |-> 0]
    ELSE append_block_no_restore(chain, state, block, checks)

\* append_block that puts an accepted block in front of the chain
append_block_prepend(chain, state, block, checks) ==
    LET r == append_block_no_restore(chain, state, block, checks)
    IN  IF r.res = Ok THEN [r EXCEPT !.blocks = <<block>> \o chain] ELSE r

\* append_block that takes a block without prev_hash for the genesis block
append_block_genesis_by_prev_hash(chain, state, block, checks) ==
    IF ~Block_verify(block)
    THEN [res |-> ERR_INVALID_HASH, blocks |-> chain, accounts |-> state,
          executed |-> 0]
    ELSE LET is_genesis == is_none(block.prev_hash) IN
    IF Len(block.transactions) = 0
    THEN [res |-> ERR_EMPTY_BLOCK, blocks |-> chain, accounts |-> state,
          executed |-> 0]
    ELSE LET account_backup == state
             run == execute_all(block.transactions, 1, state, is_genesis, checks)
         IN
    IF run.res = PANIC
    THEN [res |-> PANIC, blocks |-> chain, accounts |-> run.accounts,
          executed |-> run.executed]
    ELSE IF run.res # Ok
    THEN [res |-> ERR_TX_PREFIX \o run.res, blocks |-> chain,
          accounts |-> account_backup, executed |-> run.executed]
    ELSE [res |-> Ok, blocks |-> Append(chain, block), accounts |-> run.accounts,
          executed |-> run.executed]

\* append_block that refuses a block holding a Transfer that a block of the
\* chain already holds
append_block_no_replay(chain, state, block, checks) ==
    IF \E i \in 1..Len(block.transactions), n \in 1..Len(chain) :
          /\ block.transactions[i].data.kind = "Transfer"
          /\ \E j \in 1..Len(chain[n].transactions) :
                chain[n].transactions[j] = block.transactions[i]
    THEN [res |-> ERR_TX_PREFIX \o ERR_INVALID_SIGNATURE, blocks |-> chain,
          accounts |-> state, executed |-> 0]
    ELSE append_block_no_restore(chain, state, block, checks)

\* Blockchain::append_block
append_block(chain, state, block, checks) ==
    IF ~Block_verify(block)
    THEN [res |-> ERR_INVALID_HASH, blocks |-> chain, accounts |-> state,
          executed |-> 0]
    ELSE LET is_genesis == Len(chain) = 0 IN
    IF Len(block.transactions) = 0
    THEN [res |-> ERR_EMPTY_BLOCK, blocks |-> chain, accounts |-> state,
          executed |-> 0]
    ELSE LET account_backup == state
             run == execute_all(block.transactions, 1, state, is_genesis, checks)
         IN
    IF run.res = PANIC
    THEN [res |-> PANIC, blocks |-> chain, accounts |-> run.accounts,
          executed |-> run.executed]
    ELSE IF run.res # Ok
    THEN [res |-> ERR_TX_PREFIX \o run.res, blocks |-> chain,
          accounts |-> account_backup, executed |-> run.executed]
    ELSE [res |-> Ok, blocks |-> Append(chain, block), accounts |-> run.accounts,
          executed |-> run.executed]

\* the loop of validate without the block.verify() test
RECURSIVE validate_from_no_verify(_, _, _)
validate_from_no_verify(chain, block_num, prev_block_hash) ==
    IF block_num = 0 THEN Ok
    ELSE LET block == chain[block_num]
             is_genesis == block_num = 1
         IN
    IF ~is_genesis /\ is_none(block.prev_hash)
    THEN "Block " \o ToString(block_num) \o " doesn't have prev_hash"
    ELSE IF is_genesis /\ is_some(block.prev_hash)
    THEN "Genesis block shouldn't have prev_hash"
    ELSE IF block_num # Len(chain) /\ is_some(prev_block_hash)
            /\ unwrap(prev_block_hash) # unwrap(block.hash)
    THEN "Block " \o ToString(block_num + 1) \o " prev_hash doesn't match Block "
            \o ToString(block_num) \o " hash"
    ELSE validate_from_no_verify(chain, block_num - 1, block.prev_hash)

\* the loop of validate without the comparison of prev_hash with the hash
\* of the block before
RECURSIVE validate_from_no_link(_, _, _)
validate_from_no_link(chain, block_num, prev_block_hash) ==
    IF block_num = 0 THEN Ok
    ELSE LET block == chain[block_num]
             is_genesis == block_num = 1
         IN
    IF ~Block_verify(block)
    THEN "Block " \o ToString(block_num) \o " has invalid hash"
    ELSE IF ~is_genesis /\ is_none(block.prev_hash)
    THEN "Block " \o ToString(block_num) \o " doesn't have prev_hash"
    ELSE IF is_genesis /\ is_some(block.prev_hash)
    THEN "Genesis block shouldn't have prev_hash"
    ELSE validate_from_no_link(chain, block_num - 1, block.prev_hash)

\* the loop of Blockchain::validate at the block numbered block_num, with the
\* prev_hash of the block visited before it
RECURSIVE validate_from(_, _, _)
validate_from(chain, block_num, prev_block_hash) ==
    IF block_num = 0 THEN Ok
    ELSE LET block == chain[block_num]
             is_genesis == block_num = 1
         IN
    IF ~Block_verify(block)
    THEN "Block " \o ToString(block_num) \o " has invalid hash"
    ELSE IF ~is_genesis /\ is_none(block.prev_hash)
    THEN "Block " \o ToString(block_num) \o " doesn't have prev_hash"
    ELSE IF is_genesis /\ is_some(block.prev_hash)
    THEN "Genesis block shouldn't have prev_hash"
    ELSE IF block_num # Len(chain) /\ is_some(prev_block_hash)
            /\ unwrap(prev_block_hash) # unwrap(block.hash)
    THEN "Block " \o ToString(block_num + 1) \o " prev_hash doesn't match Block "
            \o ToString(block_num) \o " hash"
    ELSE validate_from(chain, block_num - 1, block.prev_hash)

\* Blockchain::validate
validate(chain) == validate_from(chain, Len(chain), None)

\* get_last_block_hash that reads the stored hash field of the head
get_last_block_hash_stored(chain) ==
    IF Len(chain) = 0 THEN None ELSE chain[Len(chain)].hash

\* Blockchain::get_last_block_hash
get_last_block_hash(chain) ==
    IF Len(chain) = 0 THEN None ELSE Some(Block_hash(chain[Len(chain)]))

(***************************************************************************)
(* The callers' inputs                                                     *)
(***************************************************************************)
MaxChain == 2

MaxTxs == 2

MaxNonce == 1

AccountIds == {"a", "b"}

\* the public key of the key pair generated for an account id
KeyOf(id) == IF id = "a" THEN "ka" ELSE "kb"

\* a transfer signed by key over its own content hash
signed_transfer(from, to, amount, key) ==
    LET tx == Transaction_new(Transfer(to, amount), Some(from))
    IN  set_sign(tx, sign(key, Transaction_hash(tx)))

\* a signed transfer whose data is replaced after signing
\* (tests::test_transfers_fails, blockchain.rs:579-598)
resigned_transfer(from, to, amount, key, fake_amount) ==
    [signed_transfer(from, to, amount, key) EXCEPT !.data = Transfer(to, fake_amount)]

Txs ==
    {Transaction_new(CreateAccount(id, KeyOf(id)), None) : id \in AccountIds}
    \cup {Transaction_new(MintInitialSupply("a", amount), None) : amount \in {2, U128_MAX}}
    \cup {signed_transfer("a", "b", 1, "ka"),
          Transaction_new(Transfer("b", 1), Some("a"))}

RECURSIVE SeqsUpTo(_, _)
SeqsUpTo(S, n) ==
    IF n = 0 THEN {<<>>}
    ELSE LET shorter == SeqsUpTo(S, n - 1)
         IN  shorter \cup {Append(q, x) : q \in {p \in shorter : Len(p) = n - 1}, x \in S}

TxSeqs == SeqsUpTo(Txs, MaxTxs)

\* the hash of a block that is never submitted: Block::new(None) with
\* set_nonce(99)
BogusHash == <<None, 99, <<>>>>

\* the prev_hash values a caller passes to Block::new
PrevHashes(chain) == {None, get_last_block_hash(chain), Some(BogusHash)}

(***************************************************************************)
(* State machine                                                           *)
(***************************************************************************)
\* no block is being built or mined beside the chain
IdleWorker ==
    [block |-> None, pc |-> "idle", nonce |-> 0, target |-> 0, stop |-> FALSE]

Init ==
    /\ blocks = <<>>
    /\ accounts = <<>>
    /\ result = Ok
    /\ last_op = [op |-> "new", executed |-> 0, ntx |-> 0]
    /\ overflow_checks \in BOOLEAN
    /\ worker = IdleWorker

Running == result # PANIC

\* bc.append_block(block) for a block built by its public operations
AppendBlock(prev_hash, nonce, transactions) ==
    /\ Running
    /\ Len(blocks) < MaxChain
    /\ LET block == build_block(prev_hash, nonce, transactions)
           r == append_block(blocks, accounts, block, overflow_checks)
       IN  /\ blocks' = r.blocks
           /\ accounts' = r.accounts
           /\ result' = r.res
           /\ last_op' = [op |-> "append_block", executed |-> r.executed,
                          ntx |-> Len(block.transactions),
                          verified |-> Block_verify(block)]
    /\ UNCHANGED <<overflow_checks, worker>>

\* bc.append_block(block) for a block one of whose payloads was replaced
\* after the hash was stored
AppendTamperedBlock(prev_hash, nonce, transactions, i, data) ==
    /\ Running
    /\ Len(blocks) < MaxChain
    /\ data # transactions[i].data
    /\ LET block == tamper_block(build_block(prev_hash, nonce, transactions), i, data)
           r == append_block(blocks, accounts, block, overflow_checks)
       IN  /\ blocks' = r.blocks
           /\ accounts' = r.accounts
           /\ result' = r.res
           /\ last_op' = [op |-> "append_block", executed |-> r.executed,
                          ntx |-> Len(block.transactions),
                          verified |-> Block_verify(block)]
    /\ UNCHANGED <<overflow_checks, worker>>

\* bc.append_block(Block::default())
AppendDefaultBlock ==
    /\ Running
    /\ Len(blocks) < MaxChain
    /\ LET block == Block_default
           r == append_block(blocks, accounts, block, overflow_checks)
       IN  /\ blocks' = r.blocks
           /\ accounts' = r.accounts
           /\ result' = r.res
           /\ last_op' = [op |-> "append_block", executed |-> r.executed,
                          ntx |-> Len(block.transactions),
                          verified |-> Block_verify(block)]
    /\ UNCHANGED <<overflow_checks, worker>>

\* bc.validate()
Validate ==
    /\ Running
    /\ result' = validate(blocks)
    /\ last_op' = [op |-> "validate", executed |-> 0, ntx |-> 0]
    /\ UNCHANGED <<blocks, accounts, overflow_checks, worker>>

Next ==
    \/ \E prev_hash \in PrevHashes(blocks), nonce \in 1..MaxNonce, transactions \in TxSeqs :
          AppendBlock(prev_hash, nonce, transactions)
    \/ \E prev_hash \in PrevHashes(blocks), tx \in Txs, data \in {t.data : t \in Txs} :
          AppendTamperedBlock(prev_hash, 1, <<tx>>, 1, data)
    \/ AppendDefaultBlock
    \/ Validate

Spec == Init /\ [][Next]_vars

(***************************************************************************)
(* Properties of Blockchain::append_block and Blockchain::validate         *)
(***************************************************************************)
\* the errors Transaction::execute returns
ExecuteErrors ==
    {ERR_ACCOUNT_EXISTS \o id : id \in AccountIds}
    \cup {ERR_NOT_GENESIS_MINT, ERR_UNKNOWN_ACCOUNT, ERR_INVALID_SENDER_ID,
          ERR_SELF_TRANSFER, ERR_UNKNOWN_SENDER, ERR_UNKNOWN_RECEIVER,
          ERR_INSUFFICIENT_FUNDS, ERR_INVALID_SIGNATURE, ERR_AMOUNT_OVERFLOW}

\* the errors append_block returns for a failed transaction
TxErrors == {ERR_TX_PREFIX \o e : e \in ExecuteErrors}

\* C1: an append_block call that returns a transaction error leaves the
\* ledger (accounts, balances, public keys) exactly as it was before the
\* call, and the chain too.
C1_AppendBlockAtomic ==
    [][(last_op'.op = "append_block" /\ result' \in TxErrors)
          => (accounts' = accounts /\ blocks' = blocks)]_vars

\* C1 witness: a block was rejected on a transaction error after at least
\* one of its earlier transactions had executed successfully.
C1_Witness ==
    /\ last_op.op = "append_block"
    /\ result \in TxErrors
    /\ last_op.executed >= 1

\* C2: validate() returns Ok on every chain built by append_block calls.
C2_ValidateOk == validate(blocks) = Ok

\* C3: the genesis block has no prev_hash and every later block's prev_hash
\* is the hash of the block before it.
C3_ChainLinked ==
    /\ Len(blocks) >= 1 => is_none(blocks[1].prev_hash)
    /\ \A n \in 2..Len(blocks) :
          blocks[n].prev_hash = Some(Block_hash(blocks[n - 1]))

IsMint(tx) == tx.data.kind = "MintInitialSupply"

\* C6: once the chain has a block, a MintInitialSupply fails with the
\* not-genesis error and changes nothing, and a block that contains one is
\* rejected with the ledger and the chain unchanged; a chain's later blocks
\* therefore hold no MintInitialSupply.
C6_MintOnlyInGenesis ==
    /\ Len(blocks) >= 1 =>
          /\ \A tx \in {t \in Txs : IsMint(t)} :
                LET r == execute(tx, accounts, Len(blocks) = 0, overflow_checks)
                IN  r.res = ERR_NOT_GENESIS_MINT /\ r.accounts = accounts
          /\ \A transactions \in TxSeqs, prev_hash \in PrevHashes(blocks) :
                (\E i \in 1..Len(transactions) : IsMint(transactions[i])) =>
                   LET r == append_block(blocks, accounts,
                                build_block(prev_hash, 1, transactions),
                                overflow_checks)
                   IN  /\ r.res \in TxErrors
                       /\ r.accounts = accounts
                       /\ r.blocks = blocks
    /\ \A n \in 2..Len(blocks) :
          \A i \in 1..Len(blocks[n].transactions) : ~IsMint(blocks[n].transactions[i])

\* C6 witness: an account was funded by the genesis block and a later block
\* holding a MintInitialSupply was rejected with the not-genesis error.
C6_Witness ==
    /\ Len(blocks) >= 1
    /\ last_op.op = "append_block"
    /\ result = ERR_TX_PREFIX \o ERR_NOT_GENESIS_MINT
    /\ "a" \in DOMAIN accounts
    /\ accounts["a"].balance = 2

(***************************************************************************)
(* Transaction::execute as a function of (transaction, ledger, is_genesis) *)
(*                                                                         *)
(* Every ledger is reachable (a genesis block may create any accounts and  *)
(* mint any amounts), so SpecExec draws the ledger and applies execute to  *)
(* it once; last_op keeps the inputs of the call.                          *)
(***************************************************************************)
ExecIds == {"a", "b", "c"}

ExecKeyOf(id) == IF id = "c" THEN "kc" ELSE KeyOf(id)

\* balances next to 0 and next to 2^128
ExecBalances == {0, 1, 2, U128_MAX - 1, U128_MAX}

ExecAmounts == {1, 2, U128_MAX}

\* an account of id: any balance, under the key generated for id, under
\* bytes that are no ed25519 point or, for "a", under the neutral point
ExecAccounts(id) ==
    [account_type : {"User"}, balance : ExecBalances,
     public_key : {ExecKeyOf(id), "not-a-key"}
                  \cup (IF id = "a" THEN {WeakKey} ELSE {})]

\* "c" is a bystander: absent, or present with balance 1
ExecLedgers ==
    UNION {
      UNION {
        { [id \in ids |->
              CASE id = "a" -> acc_a
                [] id = "b" -> acc_b
                [] OTHER -> [account_type |-> "User", balance |-> 1,
                             public_key |-> ExecKeyOf("c")]] :
            acc_a \in ExecAccounts("a") } :
          acc_b \in ExecAccounts("b") } :
        ids \in SUBSET ExecIds }

\* transfers: unsigned, signed by the sender's key, signed by another
\* account's key, signed by the sender's key before the amount changed, and
\* carrying the signature bytes 01 00..00 || 00..00
ExecTransfers ==
    {Transaction_new(Transfer(to, amount), None) : to \in ExecIds, amount \in ExecAmounts}
    \cup UNION { UNION { UNION {
          { Transaction_new(Transfer(to, amount), Some(from)),
            signed_transfer(from, to, amount, ExecKeyOf(from)),
            signed_transfer(from, to, amount, ExecKeyOf(to)),
            resigned_transfer(from, to, 1 + (amount % 2), ExecKeyOf(from), amount),
            set_sign(Transaction_new(Transfer(to, amount), Some(from)),
                     NeutralSignature) } :
          amount \in ExecAmounts } : to \in ExecIds } : from \in ExecIds }

ExecTxs ==
    {Transaction_new(CreateAccount(id, ExecKeyOf(id)), None) : id \in ExecIds}
    \cup {Transaction_new(MintInitialSupply(to, amount), None) :
             to \in ExecIds, amount \in ExecAmounts}
    \cup ExecTransfers

InitExec ==
    /\ blocks = <<>>
    /\ accounts \in ExecLedgers
    /\ result = Ok
    /\ last_op = [op |-> "new", executed |-> 0, ntx |-> 0]
    /\ overflow_checks \in BOOLEAN
    /\ worker = IdleWorker

\* tx.execute(state, is_genesis)
Execute(tx, is_genesis) ==
    /\ last_op.op = "new"
    /\ LET r == execute(tx, accounts, is_genesis, overflow_checks)
       IN  /\ accounts' = r.accounts
           /\ result' = r.res
    /\ last_op' = [op |-> "execute", tx |-> tx, is_genesis |-> is_genesis,
                   before |-> accounts]
    /\ UNCHANGED <<blocks, overflow_checks, worker>>

NextExec == \E tx \in ExecTxs, is_genesis \in BOOLEAN : Execute(tx, is_genesis)

SpecExec == InitExec /\ [][NextExec]_vars

(***************************************************************************)
(* Properties of Transaction::execute (checked under SpecExec)             *)
(***************************************************************************)
Executed == last_op.op = "execute"

IsTransfer(tx) == tx.data.kind = "Transfer"

\* the executed Transfer names two distinct accounts of the ledger it ran on
TransferBetweenAccounts ==
    /\ Executed
    /\ IsTransfer(last_op.tx)
    /\ is_some(last_op.tx.from)
    /\ unwrap(last_op.tx.from) # last_op.tx.data.to
    /\ unwrap(last_op.tx.from) \in DOMAIN last_op.before
    /\ last_op.tx.data.to \in DOMAIN last_op.before

SenderBefore == last_op.before[unwrap(last_op.tx.from)]

ReceiverBefore == last_op.before[last_op.tx.data.to]

\* the attached signature was made with the sender's stored key over the
\* transaction's current content hash
SignatureMatches ==
    /\ is_some(last_op.tx.signature)
    /\ SenderBefore.public_key # "not-a-key"
    /\ unwrap(last_op.tx.signature).signer = SenderBefore.public_key
    /\ unwrap(last_op.tx.signature).msg = Transaction_hash(last_op.tx)

\* C5: a Transfer between two accounts whose amount exceeds the sender's
\* balance returns the insufficient-funds error and leaves the ledger as it
\* was; a Transfer that is applied never had an amount above the sender's
\* balance, and leaves the sender a balance no greater than before.
C5_NoOverdraft ==
    TransferBetweenAccounts =>
        /\ u128_lt(SenderBefore.balance, last_op.tx.data.amount) =>
              (result = ERR_INSUFFICIENT_FUNDS /\ accounts = last_op.before)
        /\ result = Ok =>
              /\ ~u128_lt(SenderBefore.balance, last_op.tx.data.amount)
              /\ ~u128_lt(SenderBefore.balance,
                          accounts[unwrap(last_op.tx.from)].balance)

\* C5 witness: a signed transfer of more than the sender holds was refused.
C5_Witness ==
    /\ TransferBetweenAccounts
    /\ SignatureMatches
    /\ SenderBefore.balance = 1
    /\ last_op.tx.data.amount = 2
    /\ result = ERR_INSUFFICIENT_FUNDS

\* C7: a Transfer between two accounts that the sender's balance covers is
\* applied only if its signature was made with the sender's stored key over
\* the transaction's current content hash; otherwise it returns the
\* invalid-signature error, the ledger is unchanged and append_block rejects
\* a block holding it.
C7_TransferAuthorized ==
    (TransferBetweenAccounts
        /\ ~u128_lt(SenderBefore.balance, last_op.tx.data.amount)) =>
        /\ result = Ok => SignatureMatches
        /\ ~SignatureMatches =>
              /\ result = ERR_INVALID_SIGNATURE
              /\ accounts = last_op.before
              /\ LET r == append_block(blocks, last_op.before,
                              build_block(get_last_block_hash(blocks), 1,
                                          <<last_op.tx>>),
                              overflow_checks)
                 IN  /\ r.res = ERR_TX_PREFIX \o ERR_INVALID_SIGNATURE
                     /\ r.blocks = blocks
                     /\ r.accounts = last_op.before

\* the checks of a Transfer in the claimed order, each paired with its error
TransferChecks(tx, ledger) ==
    LET from_known == is_some(tx.from) /\ unwrap(tx.from) \in DOMAIN ledger
        to_known == tx.data.to \in DOMAIN ledger
    IN  << <<is_none(tx.from), ERR_INVALID_SENDER_ID>>,
           <<is_some(tx.from) /\ unwrap(tx.from) = tx.data.to, ERR_SELF_TRANSFER>>,
           <<~from_known, ERR_UNKNOWN_SENDER>>,
           <<~to_known, ERR_UNKNOWN_RECEIVER>>,
           <<from_known /\ u128_lt(ledger[unwrap(tx.from)].balance, tx.data.amount),
             ERR_INSUFFICIENT_FUNDS>>,
           <<from_known /\ ~Transaction_verify(tx, ledger[unwrap(tx.from)]),
             ERR_INVALID_SIGNATURE>>,
           <<to_known /\ u128_add_overflows(ledger[tx.data.to].balance, tx.data.amount),
             ERR_AMOUNT_OVERFLOW>> >>

\* the error of the first violated check, Ok when none is violated
FirstViolated(checks) ==
    IF \E i \in 1..Len(checks) : checks[i][1]
    THEN checks[CHOOSE i \in 1..Len(checks) :
                    checks[i][1] /\ \A j \in 1..(i - 1) : ~checks[j][1]][2]
    ELSE Ok

\* C8: a Transfer returns the error of the first violated check in the order
\* invalid sender id, self transfer, unknown sender, unknown receiver,
\* insufficient funds, invalid signature, amount overflow.
C8_ErrorPrecedence ==
    (Executed /\ IsTransfer(last_op.tx)) =>
        result = FirstViolated(TransferChecks(last_op.tx, last_op.before))

\* C8 witness: a transfer with both too small a balance and no valid
\* signature reported the insufficient-funds error.
C8_Witness ==
    /\ TransferBetweenAccounts
    /\ u128_lt(SenderBefore.balance, last_op.tx.data.amount)
    /\ ~SignatureMatches
    /\ result = ERR_INSUFFICIENT_FUNDS

\* C9: an execute that does not return Ok leaves the ledger as it was given,
\* and a Transfer that debited the sender credited the receiver.
C9_ExecuteAtomic ==
    Executed =>
        /\ result # Ok => accounts = last_op.before
        /\ (TransferBetweenAccounts
              /\ accounts[unwrap(last_op.tx.from)].balance # SenderBefore.balance) =>
                 accounts[last_op.tx.data.to].balance # ReceiverBefore.balance

\* C9 witness: a funded, signed transfer was refused because the receiver's
\* balance would overflow, after every other check had passed.
C9_Witness ==
    /\ TransferBetweenAccounts
    /\ SignatureMatches
    /\ result = ERR_AMOUNT_OVERFLOW
    /\ accounts = last_op.before

\* the ledger of tests::test_transfers before its third block
ScenarioLedger ==
    [id \in {"satoshi", "alice", "bob"} |->
        [account_type |-> "User",
         balance |-> IF id = "satoshi" THEN 100000000 ELSE 0,
         public_key |-> "k" \o id]]

\* the three signed transfers of tests::test_transfers
ScenarioTransfers ==
    << signed_transfer("satoshi", "alice", 10000000, "ksatoshi"),
       signed_transfer("satoshi", "bob", 50000000, "ksatoshi"),
       signed_transfer("bob", "satoshi", 30000000, "kbob") >>

\* C10: a Transfer that returns Ok takes exactly amount from the sender,
\* adds exactly amount to the receiver and changes nothing else: the same
\* accounts exist, with the same keys, and every other balance is as before.
\* From satoshi=100000000, alice=0, bob=0 the three transfers of the example
\* leave alice=10000000, bob=20000000, satoshi=70000000.
C10_TransferEffect ==
    /\ (Executed /\ IsTransfer(last_op.tx) /\ result = Ok) =>
          LET from == unwrap(last_op.tx.from)
              to == last_op.tx.data.to
              amount == last_op.tx.data.amount
          IN  /\ DOMAIN accounts = DOMAIN last_op.before
              /\ accounts[from].balance = last_op.before[from].balance - amount
              /\ accounts[to].balance = last_op.before[to].balance + amount
              /\ \A id \in DOMAIN accounts :
                    /\ accounts[id].public_key = last_op.before[id].public_key
                    /\ accounts[id].account_type = last_op.before[id].account_type
                    /\ id \notin {from, to} =>
                          accounts[id].balance = last_op.before[id].balance
    /\ LET run == execute_all(ScenarioTransfers, 1, ScenarioLedger, FALSE,
                              overflow_checks)
       IN  /\ run.res = Ok
           /\ run.accounts["alice"].balance = 10000000
           /\ run.accounts["bob"].balance = 20000000
           /\ run.accounts["satoshi"].balance = 70000000

\* C10 witness: a transfer was applied in a ledger holding a third account
\* and a receiver that already had a balance.
C10_Witness ==
    /\ TransferBetweenAccounts
    /\ result = Ok
    /\ ReceiverBefore.balance = 2
    /\ DOMAIN accounts = ExecIds


\* the executed Transfer names its sender as its receiver
SelfTransferExecuted ==
    /\ Executed
    /\ IsTransfer(last_op.tx)
    /\ is_some(last_op.tx.from)
    /\ unwrap(last_op.tx.from) = last_op.tx.data.to

\* C11: a Transfer whose sender is its receiver returns the self-transfer
\* error whatever the balance, the signature and the ledger are (the account
\* may even be unknown); the ledger is unchanged and append_block rejects a
\* block holding it, leaving chain and ledger as they were.
C11_SelfTransferFails ==
    SelfTransferExecuted =>
        /\ result = ERR_SELF_TRANSFER
        /\ accounts = last_op.before
        /\ LET r == append_block(blocks, last_op.before,
                        build_block(get_last_block_hash(blocks), 1, <<last_op.tx>>),
                        overflow_checks)
           IN  /\ r.res = ERR_TX_PREFIX \o ERR_SELF_TRANSFER
               /\ r.blocks = blocks
               /\ r.accounts = last_op.before

\* C11 witness: a self transfer that its account signed and could pay was
\* refused with the self-transfer error.
C11_Witness ==
    /\ SelfTransferExecuted
    /\ last_op.tx.data.to \in DOMAIN last_op.before
    /\ SignatureMatches
    /\ ~u128_lt(SenderBefore.balance, last_op.tx.data.amount)
    /\ result = ERR_SELF_TRANSFER


\* C24: a Transfer between two accounts of the ledger whose sender covers
\* the amount and whose signature verifies, and for which the receiver's
\* balance plus the amount exceeds the u128 maximum, fails with the amount
\* overflow error and leaves every balance as it was.
C24_TransferOverflow ==
    (/\ TransferBetweenAccounts
     /\ ~u128_lt(SenderBefore.balance, last_op.tx.data.amount)
     /\ SignatureMatches
     /\ u128_add_overflows(ReceiverBefore.balance, last_op.tx.data.amount)) =>
        /\ result = ERR_AMOUNT_OVERFLOW
        /\ accounts = last_op.before
        /\ accounts[unwrap(last_op.tx.from)].balance = SenderBefore.balance
        /\ accounts[last_op.tx.data.to].balance = ReceiverBefore.balance

\* C24 witness: a signed transfer of 2 from a sender holding 2 to a receiver
\* holding the u128 maximum less one was refused for the overflow.
C24_Witness ==
    /\ TransferBetweenAccounts
    /\ SignatureMatches
    /\ last_op.tx.data.amount = 2
    /\ SenderBefore.balance = 2
    /\ ReceiverBefore.balance = U128_MAX - 1
    /\ result = ERR_AMOUNT_OVERFLOW
    /\ accounts[last_op.tx.data.to].balance = U128_MAX - 1
    /\ accounts[unwrap(last_op.tx.from)].balance = 2

(***************************************************************************)
(* Auditing a chain whose committed payloads are altered in place          *)
(* (tests::test_validate): SpecAudit                                       *)
(***************************************************************************)
MaxAuditChain == 3

\* the blocks of tests::test_validate: account creations and a genesis mint
AuditTxSeqs ==
    { <<Transaction_new(CreateAccount("a", KeyOf("a")), None)>>,
      <<Transaction_new(CreateAccount("b", KeyOf("b")), None)>>,
      <<Transaction_new(CreateAccount("c", "kc"), None)>>,
      <<Transaction_new(CreateAccount("a", KeyOf("a")), None),
        Transaction_new(MintInitialSupply("a", 2), None)>> }

\* the payloads written over a committed one
AuditPayloads ==
    {CreateAccount("a", KeyOf("a")), CreateAccount("b", KeyOf("b")),
     MintInitialSupply("a", 2), MintInitialSupply("a", 1)}

\* bc.append_block(block) on the audited chain
AuditAppend(prev_hash, transactions) ==
    /\ Running
    /\ Len(blocks) < MaxAuditChain
    /\ LET block == build_block(prev_hash, 1, transactions)
           r == append_block(blocks, accounts, block, overflow_checks)
       IN  /\ blocks' = r.blocks
           /\ accounts' = r.accounts
           /\ result' = r.res
           /\ last_op' = [op |-> "append_block", executed |-> r.executed,
                          ntx |-> Len(block.transactions),
                          verified |-> Block_verify(block)]
    /\ UNCHANGED <<overflow_checks, worker>>

\* `bc.blocks.iter_mut()...transactions[i].data = data` on block n of a chain
\* whose blocks all verify: one alteration at a time
TamperChain(n, i, data) ==
    /\ Running
    /\ n \in 1..Len(blocks)
    /\ i \in 1..Len(blocks[n].transactions)
    /\ data # blocks[n].transactions[i].data
    /\ \A k \in 1..Len(blocks) : Block_verify(blocks[k])
    /\ blocks' = [blocks EXCEPT ![n] = tamper_block(@, i, data)]
    /\ last_op' = [op |-> "tamper", executed |-> 0, ntx |-> n]
    /\ UNCHANGED <<accounts, result, overflow_checks, worker>>

NextAudit ==
    \/ \E prev_hash \in PrevHashes(blocks), transactions \in AuditTxSeqs :
          AuditAppend(prev_hash, transactions)
    \/ \E n \in 1..MaxAuditChain, i \in 1..2, data \in AuditPayloads :
          TamperChain(n, i, data)
    \/ Validate

SpecAudit == Init /\ [][NextAudit]_vars

\* C12: when the payload of a transaction of any committed block is altered
\* in place on a chain that validate() accepts, validate() fails afterwards.
C12_TamperDetected ==
    [][(last_op'.op = "tamper" /\ validate(blocks) = Ok)
          => validate(blocks') # Ok]_vars

\* C12 witness: the chain has three linked blocks, the payload of the middle
\* one was altered, and validate() reports that block.
C12_Witness ==
    /\ last_op.op = "tamper"
    /\ last_op.ntx = 2
    /\ Len(blocks) = 3
    /\ blocks[2].prev_hash = blocks[1].hash
    /\ blocks[3].prev_hash = blocks[2].hash
    /\ is_none(blocks[1].prev_hash)
    /\ validate(blocks) = "Block 2 has invalid hash"


\* the executed transaction is a genesis mint to an existing account whose
\* balance plus the amount exceeds the u128 maximum
MintOverflows ==
    /\ Executed
    /\ IsMint(last_op.tx)
    /\ last_op.is_genesis
    /\ last_op.tx.data.to \in DOMAIN last_op.before
    /\ u128_add_overflows(last_op.before[last_op.tx.data.to].balance,
                          last_op.tx.data.amount)

\* C14: a MintInitialSupply whose amount added to the account's balance
\* exceeds the u128 maximum returns an error: execute neither aborts the
\* process nor returns success, and no balance is wrapped (the ledger is
\* the one before the call).
C14_MintOverflowReported ==
    MintOverflows =>
        /\ result # PANIC
        /\ result # Ok
        /\ accounts = last_op.before

IsCreateAccount(tx) == tx.data.kind = "CreateAccount"

\* a block of two CreateAccount transactions for the same id
DoubleCreateBlock(id) ==
    LET tx == Transaction_new(CreateAccount(id, ExecKeyOf(id)), None)
    IN  build_block(None, 1, <<tx, tx>>)

\* C15: CreateAccount of an id the ledger has fails with the AccountExists
\* error and leaves the ledger (the account's balance and key included)
\* unchanged; of a new id it adds one User account of balance zero under
\* the given key and changes no other account; and a block that creates the
\* same id twice is rejected with the ledger and the chain unchanged.
C15_CreateAccount ==
    /\ (Executed /\ IsCreateAccount(last_op.tx)) =>
          LET id == last_op.tx.data.to
          IN  IF id \in DOMAIN last_op.before
              THEN /\ result = ERR_ACCOUNT_EXISTS \o id
                   /\ accounts = last_op.before
              ELSE /\ result = Ok
                   /\ DOMAIN accounts = DOMAIN last_op.before \cup {id}
                   /\ accounts[id] = [account_type |-> "User", balance |-> 0,
                                      public_key |-> last_op.tx.data.public_key]
                   /\ \A other \in DOMAIN last_op.before :
                          accounts[other] = last_op.before[other]
    /\ \A id \in ExecIds :
          LET r == append_block(blocks, accounts, DoubleCreateBlock(id),
                                overflow_checks)
          IN  /\ r.res = ERR_TX_PREFIX \o ERR_ACCOUNT_EXISTS \o id
              /\ r.accounts = accounts
              /\ r.blocks = blocks

\* C15 witness: CreateAccount was executed for an id whose account held a
\* balance of 2 under another key, failed, and the account is as before.
C15_Witness ==
    /\ Executed
    /\ IsCreateAccount(last_op.tx)
    /\ last_op.tx.data.to \in DOMAIN last_op.before
    /\ last_op.before[last_op.tx.data.to].balance = 2
    /\ last_op.before[last_op.tx.data.to].public_key # last_op.tx.data.public_key
    /\ result = ERR_ACCOUNT_EXISTS \o last_op.tx.data.to
    /\ accounts[last_op.tx.data.to] = last_op.before[last_op.tx.data.to]

\* C18: get_last_block_hash() is None on a chain without blocks and
\* otherwise the hash recomputed from the head block's prev_hash, nonce and
\* transactions (also when the head's payload was altered after it was
\* stored); right after a successful append_block it is the stored hash of
\* the block that was appended.
C18_LastBlockHash ==
    /\ [](IF Len(blocks) = 0
          THEN get_last_block_hash(blocks) = None
          ELSE LET head == blocks[Len(blocks)]
               IN  get_last_block_hash(blocks) =
                      Some(<<head.prev_hash, head.nonce,
                             [i \in 1..Len(head.transactions) |->
                                 Transaction_hash(head.transactions[i])]>>))
    /\ [][(last_op'.op = "append_block" /\ result' = Ok
              /\ Len(blocks') = Len(blocks) + 1)
          => get_last_block_hash(blocks') = blocks'[Len(blocks')].hash]_vars

\* C18 witness: the head of a chain of two blocks had a payload altered, and
\* get_last_block_hash() is the recomputed hash, not the stored one.
C18_Witness ==
    /\ last_op.op = "tamper"
    /\ Len(blocks) = 2
    /\ last_op.ntx = 2
    /\ get_last_block_hash(blocks) = Some(Block_hash(blocks[2]))
    /\ get_last_block_hash(blocks) # blocks[2].hash

\* the chain is well formed: every block verifies, the genesis block has no
\* prev_hash, and every later block's prev_hash is the hash of the block
\* appended before it
WellFormed(chain) ==
    /\ \A n \in 1..Len(chain) : Block_verify(chain[n])
    /\ Len(chain) >= 1 => is_none(chain[1].prev_hash)
    /\ \A n \in 2..Len(chain) :
          /\ is_some(chain[n].prev_hash)
          /\ chain[n].prev_hash = Some(Block_hash(chain[n - 1]))

\* what validate reports when it visits block n (numbered from 1 at the
\* genesis block), Ok when it finds nothing there
ViolationAt(chain, n) ==
    IF ~Block_verify(chain[n])
    THEN "Block " \o ToString(n) \o " has invalid hash"
    ELSE IF n > 1 /\ is_none(chain[n].prev_hash)
    THEN "Block " \o ToString(n) \o " doesn't have prev_hash"
    ELSE IF n = 1 /\ is_some(chain[n].prev_hash)
    THEN "Genesis block shouldn't have prev_hash"
    ELSE IF n < Len(chain) /\ chain[n + 1].prev_hash # Some(Block_hash(chain[n]))
    THEN "Block " \o ToString(n + 1) \o " prev_hash doesn't match Block "
            \o ToString(n) \o " hash"
    ELSE Ok

\* C23: validate() returns Ok exactly on a well-formed chain; otherwise it
\* returns the violation of the first block, in its traversal from the head
\* towards the genesis block, at which there is one, with that block's
\* number; and a validate() call changes neither the chain nor the ledger.
C23_ValidateExact ==
    /\ [](LET bad == {n \in 1..Len(blocks) : ViolationAt(blocks, n) # Ok}
          IN  /\ validate(blocks) = Ok <=> WellFormed(blocks)
              /\ bad = {} <=> WellFormed(blocks)
              /\ bad # {} =>
                    validate(blocks) =
                       ViolationAt(blocks, CHOOSE n \in bad : \A m \in bad : m <= n))
    /\ [][last_op'.op = "validate" =>
             /\ result' = validate(blocks)
             /\ blocks' = blocks
             /\ accounts' = accounts]_vars

\* C23 witness: in a chain of three blocks the head is not linked to the
\* second block and the payload of the genesis block was altered;
\* validate() was called and reported the link, which it meets first.
C23_Witness ==
    /\ last_op.op = "validate"
    /\ Len(blocks) = 3
    /\ ~Block_verify(blocks[1])
    /\ blocks[3].prev_hash # Some(Block_hash(blocks[2]))
    /\ result = "Block 3 prev_hash doesn't match Block 2 hash"

(***************************************************************************)
(* Submitting blocks to a chain (SpecAppend): blocks built by their public *)
(* operations, with and without transactions, Block::default(), and blocks *)
(* whose payload was altered after the hash was stored.                    *)
(***************************************************************************)
AppendTxSeqs ==
    AuditTxSeqs
    \cup {<<>>, <<Transaction_new(MintInitialSupply("a", 2), None)>>}

\* blocks whose stored hash is not the hash of their content
StaleBlocks(chain) ==
    {tamper_block(build_block(get_last_block_hash(chain), 1,
                     <<Transaction_new(CreateAccount("b", KeyOf("b")), None)>>),
                  1, data) :
        data \in AuditPayloads \ {CreateAccount("b", KeyOf("b"))}}
    \cup {Block_default}

\* the blocks a caller may submit to the current chain
SubmittedBlocks ==
    {build_block(prev_hash, 1, transactions) :
        prev_hash \in PrevHashes(blocks), transactions \in AppendTxSeqs}
    \cup StaleBlocks(blocks)

\* bc.append_block(block)
AppendSubmitted(block) ==
    /\ Running
    /\ Len(blocks) < MaxAuditChain
    /\ LET r == append_block(blocks, accounts, block, overflow_checks)
       IN  /\ blocks' = r.blocks
           /\ accounts' = r.accounts
           /\ result' = r.res
           /\ last_op' = [op |-> "append_block", executed |-> r.executed,
                          ntx |-> Len(block.transactions),
                          verified |-> Block_verify(block)]
    /\ UNCHANGED <<overflow_checks, worker>>

NextAppend ==
    \/ \E prev_hash \in PrevHashes(blocks), transactions \in AppendTxSeqs :
          AppendSubmitted(build_block(prev_hash, 1, transactions))
    \/ \E block \in StaleBlocks(blocks) : AppendSubmitted(block)
    \/ Validate

SpecAppend == Init /\ [][NextAppend]_vars

\* C16: append_block of a block that does not verify returns the invalid
\* hash error, also when the block is empty; of a block that verifies and
\* has no transactions it returns the empty block error; in both cases no
\* transaction is executed and the chain and the ledger are unchanged.
C16_StructuralRejection ==
    [][last_op'.op = "append_block" =>
          /\ ~last_op'.verified =>
                /\ result' = ERR_INVALID_HASH
                /\ last_op'.executed = 0
                /\ blocks' = blocks
                /\ accounts' = accounts
          /\ (last_op'.verified /\ last_op'.ntx = 0) =>
                /\ result' = ERR_EMPTY_BLOCK
                /\ last_op'.executed = 0
                /\ blocks' = blocks
                /\ accounts' = accounts]_vars

\* C16 witness: on a chain of one block, a block that neither verifies nor
\* has a transaction was submitted and refused for its hash.
C16_Witness ==
    /\ last_op.op = "append_block"
    /\ ~last_op.verified
    /\ last_op.ntx = 0
    /\ Len(blocks) = 1
    /\ result = ERR_INVALID_HASH

\* C20: every append_block call that succeeds leaves the chain it found
\* followed by exactly the submitted block, every call that fails leaves
\* the chain as it found it, and no step removes, replaces or reorders a
\* block: the old chain is always a prefix of the new one.
C20_AppendOnly ==
    /\ [](\A block \in SubmittedBlocks :
             LET r == append_block(blocks, accounts, block, overflow_checks)
             IN  IF r.res = Ok
                 THEN r.blocks = Append(blocks, block)
                 ELSE r.blocks = blocks)
    /\ [][/\ Len(blocks') >= Len(blocks)
          /\ SubSeq(blocks', 1, Len(blocks)) = blocks
          /\ IF last_op'.op = "append_block" /\ result' = Ok
             THEN Len(blocks') = Len(blocks) + 1
             ELSE blocks' = blocks]_vars

\* C20 witness: a second block was appended behind the genesis block.
C20_Witness ==
    /\ last_op.op = "append_block"
    /\ result = Ok
    /\ Len(blocks) = 2
    /\ is_none(blocks[1].prev_hash)
    /\ blocks[2].prev_hash = Some(Block_hash(blocks[1]))

(***************************************************************************)
(* A Block in the hands of its builder: new, set_nonce, add_transaction,   *)
(* in-place alteration of a payload, and mine (SpecBlock).                 *)
(*                                                                         *)
(* worker.block is the block, worker.pc is "idle", "mining" or "panicked", *)
(* worker.nonce and worker.target are the locals of Block::mine, and       *)
(* worker.stop is a stop signal raised by the environment.  A target       *)
(* string is written as the tuple of its characters.  The search of mine   *)
(* is followed up to the nonce NonceLimit.                                 *)
(***************************************************************************)
NonceLimit == 6

\* char::to_digit(16): -1 for a character that is no hexadecimal digit
to_digit(c) ==
    CASE c = "0" -> 0 [] c = "1" -> 1 [] c = "2" -> 2 [] c = "3" -> 3
      [] c = "4" -> 4 [] c = "5" -> 5 [] c = "6" -> 6 [] c = "7" -> 7
      [] c = "8" -> 8 [] c = "9" -> 9
      [] c \in {"a", "A"} -> 10 [] c \in {"b", "B"} -> 11
      [] c \in {"c", "C"} -> 12 [] c \in {"d", "D"} -> 13
      [] c \in {"e", "E"} -> 14 [] c \in {"f", "F"} -> 15
      [] OTHER -> -1

I32_MAX == 2147483647

I32_MIN == -2147483647 - 1

\* the digit loop of i32::from_str_radix(_, 16) from character i on, with
\* the value read so far: each character is converted, then the value is
\* multiplied by 16 and the digit added (subtracted after a '-'), every
\* step checked
RECURSIVE parse_digits(_, _, _, _)
parse_digits(digits, i, value, is_positive) ==
    IF i > Len(digits) THEN [err |-> "", value |-> value]
    ELSE LET x == to_digit(digits[i])
         IN  IF x = -1 THEN [err |-> "InvalidDigit", value |-> 0]
             ELSE IF is_positive
             THEN IF value > I32_MAX \div 16 \/ 16 * value > I32_MAX - x
                  THEN [err |-> "PosOverflow", value |-> 0]
                  ELSE parse_digits(digits, i + 1, 16 * value + x, is_positive)
             ELSE IF value < -134217728 \/ 16 * value < I32_MIN + x
                  THEN [err |-> "NegOverflow", value |-> 0]
                  ELSE parse_digits(digits, i + 1, 16 * value - x, is_positive)

\* Bits::from_str_radix(target, 16) on the characters of target: the value,
\* or the kind of the ParseIntError
Bits_from_str_radix(target) ==
    IF Len(target) = 0 THEN [err |-> "Empty", value |-> 0]
    ELSE IF target[1] \in {"+", "-"} /\ Len(target) = 1
    THEN [err |-> "InvalidDigit", value |-> 0]
    ELSE IF target[1] = "+" THEN parse_digits(Tail(target), 1, 0, TRUE)
    ELSE IF target[1] = "-" THEN parse_digits(Tail(target), 1, 0, FALSE)
    ELSE parse_digits(target, 1, 0, TRUE)

\* a target about half of the digests are below: "20800000"
EASY_TARGET == <<"2", "0", "8", "0", "0", "0", "0", "0">>

\* MAX_TARGET as the string handed to mine: "1effffff"
MAX_TARGET_STR == <<"1", "e", "f", "f", "f", "f", "f", "f">>

BlockTxs ==
    {Transaction_new(CreateAccount("a", KeyOf("a")), None),
     Transaction_new(MintInitialSupply("a", 2), None)}

BlockPayloads == {MintInitialSupply("a", 1), CreateAccount("b", KeyOf("b"))}

\* the targets handed to mine: "20800000", "1effffff", "1" (the compact
\* value of no digest is below it), and the strings "", "zz" and "80000000"
\* that are no i32
MineTargets ==
    {EASY_TARGET, MAX_TARGET_STR, <<"1">>,
     <<>>, <<"z", "z">>, <<"8", "0", "0", "0", "0", "0", "0", "0">>}

InitBlock ==
    /\ blocks = <<>>
    /\ accounts = <<>>
    /\ result = Ok
    /\ last_op = [op |-> "Block::new", executed |-> 0, ntx |-> 0]
    /\ overflow_checks \in BOOLEAN
    /\ \E prev_hash \in {None, Some(BogusHash)} :
          worker = [IdleWorker EXCEPT !.block = Block_new(prev_hash)]

\* block.set_nonce(nonce)
BlockSetNonce(nonce) ==
    /\ worker.pc = "idle"
    /\ worker' = [worker EXCEPT !.block = set_nonce(@, nonce)]
    /\ last_op' = [op |-> "set_nonce", executed |-> 0, ntx |-> 0]
    /\ UNCHANGED <<blocks, accounts, result, overflow_checks>>

\* block.add_transaction(transaction)
BlockAddTransaction(transaction) ==
    /\ worker.pc = "idle"
    /\ Len(worker.block.transactions) < MaxTxs
    /\ worker' = [worker EXCEPT !.block = add_transaction(@, transaction)]
    /\ last_op' = [op |-> "add_transaction", executed |-> 0, ntx |-> 0]
    /\ UNCHANGED <<blocks, accounts, result, overflow_checks>>

\* `block.transactions[i].data = data` on a block that verifies
BlockTamper(i, data) ==
    /\ worker.pc = "idle"
    /\ i \in 1..Len(worker.block.transactions)
    /\ data # worker.block.transactions[i].data
    /\ Block_verify(worker.block)
    /\ worker' = [worker EXCEPT !.block = tamper_block(@, i, data)]
    /\ last_op' = [op |-> "tamper_block", executed |-> 0, ntx |-> 0]
    /\ UNCHANGED <<blocks, accounts, result, overflow_checks>>

\* block.mine(target) is entered: `let mut nonce = 1`, then the target is
\* parsed and unwrapped, which panics on a ParseIntError
MineStart(target) ==
    /\ worker.pc = "idle"
    /\ Len(blocks) < MaxChain
    /\ LET parsed == Bits_from_str_radix(target)
       IN  IF parsed.err # ""
           THEN worker' = [worker EXCEPT !.pc = "panicked", !.nonce = 1]
           ELSE worker' = [worker EXCEPT !.pc = "mining", !.nonce = 1,
                                         !.target = parsed.value]
    /\ last_op' = [op |-> "mine", executed |-> 0, ntx |-> 0]
    /\ UNCHANGED <<blocks, accounts, result, overflow_checks>>

\* the loop test of mine on the stored hash
MineSatisfied == get_bits_from_hash(unwrap(worker.block.hash)) < worker.target

\* mine returns: the loop test fails
MineReturn ==
    /\ worker.pc = "mining"
    /\ MineSatisfied
    /\ worker' = [worker EXCEPT !.pc = "idle"]
    /\ last_op' = [op |-> "mine", executed |-> 0, ntx |-> 0]
    /\ UNCHANGED <<blocks, accounts, result, overflow_checks>>

\* one iteration of the loop of mine: `nonce += 1; self.set_nonce(nonce)`
MineStep ==
    /\ worker.pc = "mining"
    /\ ~MineSatisfied
    /\ worker.nonce < NonceLimit
    /\ LET nonce == worker.nonce + 1
       IN  worker' = [worker EXCEPT !.nonce = nonce,
                                    !.block = set_nonce(@, nonce)]
    /\ last_op' = [op |-> "mine", executed |-> 0, ntx |-> 0]
    /\ UNCHANGED <<blocks, accounts, result, overflow_checks>>

\* the environment raises the stop signal
RaiseStop ==
    /\ ~worker.stop
    /\ worker' = [worker EXCEPT !.stop = TRUE]
    /\ UNCHANGED <<blocks, accounts, result, last_op, overflow_checks>>

NextBlock ==
    \/ \E nonce \in 1..MaxNonce : BlockSetNonce(nonce)
    \/ \E transaction \in BlockTxs : BlockAddTransaction(transaction)
    \/ \E i \in 1..MaxTxs, data \in BlockPayloads : BlockTamper(i, data)
    \/ \E target \in MineTargets : MineStart(target)
    \/ MineReturn
    \/ MineStep
    \/ RaiseStop

SpecBlock == InitBlock /\ [][NextBlock]_vars

\* C13: after Block::new and after every set_nonce and add_transaction the
\* block verifies (its stored hash is the hash of prev_hash, nonce and the
\* transactions in order); right after a payload is altered in place it
\* does not.
C13_SelfHashFresh ==
    /\ last_op.op \in {"Block::new", "set_nonce", "add_transaction"} =>
          /\ Block_verify(worker.block)
          /\ worker.block.hash = Some(<<worker.block.prev_hash, worker.block.nonce,
                [i \in 1..Len(worker.block.transactions) |->
                    Transaction_hash(worker.block.transactions[i])]>>)
    /\ last_op.op = "tamper_block" => ~Block_verify(worker.block)

\* C13 witness: a block that had its nonce set and two transactions added
\* had a payload altered, and no longer verifies.
C13_Witness ==
    /\ last_op.op = "tamper_block"
    /\ worker.block.nonce = 1
    /\ Len(worker.block.transactions) = 2
    /\ ~Block_verify(worker.block)


\* C25: while mine runs, every change it makes to the block sets the nonce
\* to the block's nonce plus one, leaves prev_hash and the transactions as
\* they were and leaves a block that verifies; a block whose hash is below
\* the target is not changed; and when mine has returned the compact value
\* of the stored hash is below the target.
C25_MineContract ==
    /\ [][(worker.pc = "mining" /\ worker'.block # worker.block) =>
             /\ worker'.block.nonce = worker.block.nonce + 1
             /\ worker'.block.prev_hash = worker.block.prev_hash
             /\ worker'.block.transactions = worker.block.transactions
             /\ Block_verify(worker'.block)]_vars
    /\ [][(worker.pc = "mining" /\ MineSatisfied) =>
             worker'.block = worker.block]_vars
    /\ []((worker.pc = "idle" /\ last_op.op = "mine") => MineSatisfied)

\* SpecBlock with a miner that keeps running: the thread that is inside
\* Block::mine is scheduled again and again, so an iteration or the return
\* that stays possible is eventually taken.
SpecBlockFair ==
    InitBlock /\ [][NextBlock]_vars /\ WF_vars(MineStep) /\ WF_vars(MineReturn)

\* C19: the loop of mine() reads the stop signal once per nonce increment:
\* an iteration that starts with the signal raised makes no increment, and
\* once the signal is raised while mine() is running, mine() eventually
\* returns, also when no nonce satisfies the target (as with the target "1",
\* which the compact value of no digest is below).
C19_MiningCancellable ==
    /\ [][(worker.stop /\ worker.pc = "mining") =>
             worker'.nonce = worker.nonce]_vars
    /\ (worker.stop /\ worker.pc = "mining") ~> (worker.pc = "idle")

(***************************************************************************)
(* The flow of tests::test_mining (SpecMining): a block is made on         *)
(* get_last_block_hash(), given transactions, mined and submitted, and     *)
(* the next block is made on the new head.                                 *)
(***************************************************************************)
MiningTxs ==
    {Transaction_new(CreateAccount("a", KeyOf("a")), None),
     Transaction_new(CreateAccount("b", KeyOf("b")), None),
     Transaction_new(MintInitialSupply("a", 2), None)}

InitMining ==
    /\ blocks = <<>>
    /\ accounts = <<>>
    /\ result = Ok
    /\ last_op = [op |-> "Block::new", executed |-> 0, ntx |-> 0]
    /\ overflow_checks \in BOOLEAN
    /\ worker = [IdleWorker EXCEPT !.block = Block_new(get_last_block_hash(<<>>))]

\* bc.append_block(block), then Block::new(bc.get_last_block_hash())
Submit ==
    /\ worker.pc = "idle"
    /\ Running
    /\ Len(blocks) < MaxChain
    /\ LET block == worker.block
           r == append_block(blocks, accounts, block, overflow_checks)
       IN  /\ blocks' = r.blocks
           /\ accounts' = r.accounts
           /\ result' = r.res
           /\ last_op' = [op |-> "append_block", executed |-> r.executed,
                          ntx |-> Len(block.transactions),
                          verified |-> Block_verify(block),
                          mined |-> last_op.op = "mine"]
           /\ worker' = [IdleWorker EXCEPT
                            !.block = Block_new(get_last_block_hash(r.blocks))]
    /\ UNCHANGED overflow_checks

\* the miner adds a transaction that executes on the ledger after the
\* transactions the block already has
MinerAddTransaction(transaction) ==
    /\ Len(blocks) < MaxChain
    /\ execute_all(Append(worker.block.transactions, transaction), 1, accounts,
                   Len(blocks) = 0, overflow_checks).res = Ok
    /\ BlockAddTransaction(transaction)

NextMining ==
    \/ \E transaction \in MiningTxs : MinerAddTransaction(transaction)
    \/ MineStart(EASY_TARGET)
    \/ MineReturn
    \/ MineStep
    \/ Submit

SpecMining == InitMining /\ [][NextMining]_vars

\* the block in the worker's hands has come back from mine, is built on
\* the head of the chain, has a transaction, and all its transactions
\* execute on the current ledger
MinedOnHead ==
    /\ worker.pc = "idle"
    /\ last_op.op = "mine"
    /\ get_bits_from_hash(unwrap(worker.block.hash)) < worker.target
    /\ worker.block.prev_hash = get_last_block_hash(blocks)
    /\ Len(worker.block.transactions) > 0
    /\ execute_all(worker.block.transactions, 1, accounts, Len(blocks) = 0,
                   overflow_checks).res = Ok

\* C17: append_block accepts a block of at least one transaction that was
\* built on get_last_block_hash(), was mined against the target, and whose
\* transactions all execute: it returns Ok and the block is the new head,
\* for the genesis block and for later blocks.
C17_MinedBlockAccepted ==
    [][(MinedOnHead /\ last_op'.op = "append_block") =>
          /\ result' = Ok
          /\ blocks' = Append(blocks, worker.block)]_vars

\* C17 witness: a genesis block that mine had to search a nonce for and a
\* second mined block were both accepted.
C17_Witness ==
    /\ last_op.op = "append_block"
    /\ last_op.mined
    /\ result = Ok
    /\ Len(blocks) = 2
    /\ blocks[1].nonce > 1
    /\ blocks[2].prev_hash = blocks[1].hash
    /\ \A n \in 1..2 : get_bits_from_hash(unwrap(blocks[n].hash))
                            < Bits_from_str_radix(EASY_TARGET).value

\* C4: every non-genesis block of the chain was appended with the compact
\* value of its hash below the retargeted target, which never exceeds
\* MAX_TARGET.
C4_ProofOfWorkGate ==
    \A n \in 2..Len(blocks) :
        get_bits_from_hash(unwrap(blocks[n].hash)) < MAX_TARGET


(***************************************************************************)
(* A ledger under blocks of creations, a genesis mint and transfers        *)
(* (SpecLedger), after tests::test_create_genesis_block_fails,             *)
(* test_state_rollback_works and test_transfers.  last_op keeps the        *)
(* transactions of the submitted block and the result of the call before.  *)
(***************************************************************************)
MaxLedgerChain == 3

LedgerTxSeqs ==
    LET create_a == Transaction_new(CreateAccount("a", KeyOf("a")), None)
        create_b == Transaction_new(CreateAccount("b", KeyOf("b")), None)
        create_c == Transaction_new(CreateAccount("c", "kc"), None)
        mint_a(amount) == Transaction_new(MintInitialSupply("a", amount), None)
        mint_b(amount) == Transaction_new(MintInitialSupply("b", amount), None)
        a_to_b == signed_transfer("a", "b", 1, KeyOf("a"))
        b_to_a == signed_transfer("b", "a", 1, KeyOf("b"))
    IN  { <<create_a, create_b, mint_a(2)>>,
          <<create_a, create_b, mint_a(2), mint_b(U128_MAX)>>,
          <<mint_a(2), create_a>>,
          <<create_c, mint_a(1)>>,
          <<create_c>>,
          <<Transaction_new(CreateAccount("a", "kx"), None)>>,
          <<a_to_b>>,
          <<b_to_a>>,
          <<a_to_b, b_to_a>>,
          <<a_to_b, a_to_b>>,
          <<a_to_b, Transaction_new(Transfer("b", 1), Some("a"))>> }

\* bc.append_block(block) for a block built by its public operations
LedgerAppend(prev_hash, transactions) ==
    /\ Running
    /\ Len(blocks) < MaxLedgerChain
    /\ LET block == build_block(prev_hash, 1, transactions)
           r == append_block(blocks, accounts, block, overflow_checks)
       IN  /\ blocks' = r.blocks
           /\ accounts' = r.accounts
           /\ result' = r.res
           /\ last_op' = [op |-> "append_block", executed |-> r.executed,
                          ntx |-> Len(block.transactions),
                          verified |-> Block_verify(block),
                          txs |-> block.transactions,
                          prev_result |-> result]
    /\ UNCHANGED <<overflow_checks, worker>>

NextLedger ==
    \E prev_hash \in {None, get_last_block_hash(blocks)},
       transactions \in LedgerTxSeqs :
          LedgerAppend(prev_hash, transactions)

SpecLedger == Init /\ [][NextLedger]_vars

\* some transaction of txs may change the balance of id: a MintInitialSupply
\* to id in a genesis block, or a Transfer from or to id
TouchesBalance(txs, id, is_genesis) ==
    \E i \in 1..Len(txs) :
        \/ IsMint(txs[i]) /\ txs[i].data.to = id /\ is_genesis
        \/ IsTransfer(txs[i]) /\ (txs[i].data.to = id \/ txs[i].from = Some(id))

\* C21: every account of the ledger is in the ledger after each append_block
\* call, with the same public key; a call that fails leaves the ledger as it
\* was (accounts the failed block created are gone, no other is); and a
\* balance differs after a call only if the block was accepted and holds a
\* genesis MintInitialSupply to that account or a Transfer from or to it.
C21_AccountPermanence ==
    [][last_op'.op = "append_block" =>
          /\ \A id \in DOMAIN accounts :
                /\ id \in DOMAIN accounts'
                /\ accounts'[id].public_key = accounts[id].public_key
                /\ accounts'[id].account_type = accounts[id].account_type
          /\ result' # Ok => accounts' = accounts
          /\ \A id \in DOMAIN accounts' :
                LET before == IF id \in DOMAIN accounts
                              THEN accounts[id].balance ELSE 0
                IN  accounts'[id].balance # before =>
                       /\ result' = Ok
                       /\ TouchesBalance(last_op'.txs, id, Len(blocks) = 0)]_vars

\* C21 witness: on a ledger with accounts a and b, a block that created c
\* and then failed was rejected, and the ledger holds a and b only, with
\* their balances.
C21_Witness ==
    /\ last_op.op = "append_block"
    /\ last_op.executed = 1
    /\ IsCreateAccount(last_op.txs[1])
    /\ last_op.txs[1].data.to = "c"
    /\ result = ERR_TX_PREFIX \o ERR_NOT_GENESIS_MINT
    /\ DOMAIN accounts = {"a", "b"}
    /\ accounts["a"].balance = 1
    /\ accounts["b"].balance = 1


\* the ledger after the first k transactions of txs ran one after the other
\* on state
RECURSIVE LedgerAfter(_, _, _, _, _)
LedgerAfter(txs, k, state, is_genesis, checks) ==
    IF k = 0 THEN state
    ELSE execute(txs[k], LedgerAfter(txs, k - 1, state, is_genesis, checks),
                 is_genesis, checks).accounts

\* what transaction k of txs returns on the ledger its predecessors left
OutcomeAt(txs, k, state, is_genesis, checks) ==
    execute(txs[k], LedgerAfter(txs, k - 1, state, is_genesis, checks),
            is_genesis, checks).res

\* C22: append_block of a block that verifies and has transactions runs
\* them in list order, each on the ledger the earlier ones left: when all
\* succeed the ledger is the one after the last; otherwise the result is the
\* error of the first one that fails, only the ones before it were executed,
\* and the block is rejected.  A genesis block whose first transaction mints
\* to an account created later in the block fails on the unknown account.
C22_SequentialExecution ==
    [][(last_op'.op = "append_block" /\ last_op'.verified /\ last_op'.ntx > 0) =>
          LET txs == last_op'.txs
              is_genesis == Len(blocks) = 0
              failing == {k \in 1..Len(txs) :
                            OutcomeAt(txs, k, accounts, is_genesis,
                                      overflow_checks) # Ok}
          IN  /\ IF failing = {}
                 THEN /\ result' = Ok
                      /\ last_op'.executed = Len(txs)
                      /\ accounts' = LedgerAfter(txs, Len(txs), accounts,
                                                 is_genesis, overflow_checks)
                 ELSE LET first == CHOOSE k \in failing :
                                      \A j \in failing : k <= j
                      IN  /\ result' = ERR_TX_PREFIX \o
                                OutcomeAt(txs, first, accounts, is_genesis,
                                          overflow_checks)
                          /\ last_op'.executed = first - 1
                          /\ accounts' = accounts
                          /\ blocks' = blocks
              /\ (is_genesis /\ IsMint(txs[1])
                    /\ txs[1].data.to \notin DOMAIN accounts) =>
                    result' = ERR_TX_PREFIX \o ERR_UNKNOWN_ACCOUNT]_vars

\* C22 witness: a block in which a pays b and b, who had nothing, pays a
\* back was accepted.
C22_Witness ==
    /\ last_op.op = "append_block"
    /\ result = Ok
    /\ last_op.executed = 2
    /\ IsTransfer(last_op.txs[1]) /\ last_op.txs[1].from = Some("a")
    /\ IsTransfer(last_op.txs[2]) /\ last_op.txs[2].from = Some("b")
    /\ accounts["b"].balance = 0
    /\ accounts["a"].balance = 2


\* txs creates accounts, each once, and mints only to accounts it created
\* before
GenesisShaped(txs) ==
    \A i \in 1..Len(txs) :
        \/ /\ IsCreateAccount(txs[i])
           /\ \A j \in 1..(i - 1) :
                 ~(IsCreateAccount(txs[j]) /\ txs[j].data.to = txs[i].data.to)
        \/ /\ IsMint(txs[i])
           /\ \E j \in 1..(i - 1) :
                 IsCreateAccount(txs[j]) /\ txs[j].data.to = txs[i].data.to

\* C26: a block is executed as genesis exactly when the chain is empty at
\* the call.  On an empty chain no block is refused for minting outside the
\* genesis block, and a block that creates accounts and mints to them is
\* accepted, also after earlier blocks were rejected; on a chain with a
\* block, a block that starts with a MintInitialSupply is refused for it,
\* and no accepted block holds one.
C26_GenesisFlag ==
    [][(last_op'.op = "append_block" /\ last_op'.verified /\ last_op'.ntx > 0) =>
          LET txs == last_op'.txs
          IN  /\ Len(blocks) = 0 =>
                    /\ result' # ERR_TX_PREFIX \o ERR_NOT_GENESIS_MINT
                    /\ GenesisShaped(txs) => result' = Ok
              /\ Len(blocks) >= 1 =>
                    /\ IsMint(txs[1]) =>
                          result' = ERR_TX_PREFIX \o ERR_NOT_GENESIS_MINT
                    /\ result' = Ok =>
                          \A i \in 1..Len(txs) : ~IsMint(txs[i])]_vars

\* C26 witness: after a first block was rejected, the next block, which
\* mints, was accepted as the genesis block.
C26_Witness ==
    /\ last_op.op = "append_block"
    /\ last_op.prev_result # Ok
    /\ result = Ok
    /\ Len(blocks) = 1
    /\ \E i \in 1..Len(last_op.txs) : IsMint(last_op.txs[i])
    /\ accounts["a"].balance = 2


\* the sum of the balances of the accounts in ids
RECURSIVE SumBalances(_, _)
SumBalances(ledger, ids) ==
    IF ids = {} THEN 0
    ELSE LET id == CHOOSE x \in ids : TRUE
         IN  ledger[id].balance + SumBalances(ledger, ids \ {id})

\* the total supply of a ledger: balances are written by their low part, a
\* negative one standing for 2^128 more, so the total is the number of
\* those together with the sum of the written values
Supply(ledger) ==
    <<Cardinality({id \in DOMAIN ledger : ledger[id].balance < 0}),
      SumBalances(ledger, DOMAIN ledger)>>

\* C27: once the chain has a block, every append_block call, accepted or
\* rejected, leaves the sum of all balances as it was.
C27_SupplyConserved ==
    [][(last_op'.op = "append_block" /\ Len(blocks) >= 1) =>
          Supply(accounts') = Supply(accounts)]_vars

\* C27 witness: on a chain of two blocks a third block moved currency from
\* b, who held the u128 maximum, to a, and the supply is what it was.
C27_Witness ==
    /\ last_op.op = "append_block"
    /\ result = Ok
    /\ Len(blocks) = 3
    /\ IsTransfer(last_op.txs[1])
    /\ DOMAIN accounts = {"a", "b"}
    /\ accounts["a"].balance = 3
    /\ accounts["b"].balance = U128_MAX - 1


\* a chain as long as one block when chain has blocks, holding none of its
\* transactions
Forgotten(chain) ==
    IF Len(chain) = 0 THEN <<>>
    ELSE <<build_block(None, 1, <<Transaction_new(CreateAccount("z", "kz"), None)>>)>>

\* C28: what an append_block call returns and the ledger it leaves are those
\* of the same block submitted to the same ledger under a chain that holds
\* none of the block's transactions; and a block of one signed Transfer
\* whose sender covers the amount and whose receiver has room for it is
\* accepted and moves the amount, whether or not the chain holds that
\* Transfer already.
C28_HistoryIndependent ==
    [][(last_op'.op = "append_block" /\ last_op'.verified /\ last_op'.ntx > 0) =>
          LET txs == last_op'.txs
              fresh == append_block(Forgotten(blocks), accounts,
                                    build_block(None, 1, txs), overflow_checks)
              tx == txs[1]
          IN  /\ result' = fresh.res
              /\ accounts' = fresh.accounts
              /\ (/\ Len(txs) = 1
                  /\ IsTransfer(tx)
                  /\ is_some(tx.from)
                  /\ unwrap(tx.from) # tx.data.to
                  /\ unwrap(tx.from) \in DOMAIN accounts
                  /\ tx.data.to \in DOMAIN accounts
                  /\ ~u128_lt(accounts[unwrap(tx.from)].balance, tx.data.amount)
                  /\ Transaction_verify(tx, accounts[unwrap(tx.from)])
                  /\ ~u128_add_overflows(accounts[tx.data.to].balance,
                                         tx.data.amount)) =>
                    /\ result' = Ok
                    /\ accounts'[unwrap(tx.from)].balance =
                          u128_sub(accounts[unwrap(tx.from)].balance, tx.data.amount)
                    /\ accounts'[tx.data.to].balance =
                          wrapping_add(accounts[tx.data.to].balance, tx.data.amount)]_vars

\* C28 witness: the same signed Transfer of 1 from a to b was accepted in the
\* second and again in the third block, and moved 2 in all.
C28_Witness ==
    /\ last_op.op = "append_block"
    /\ result = Ok
    /\ Len(blocks) = 3
    /\ Len(blocks[2].transactions) = 1
    /\ IsTransfer(blocks[2].transactions[1])
    /\ blocks[3].transactions = blocks[2].transactions
    /\ accounts["a"].balance = 0
    /\ accounts["b"].balance = 2

====
